---------------------------- MODULE Spec2Model ----------------------------
(***************************************************************************)
(* A model of packages/hashi/src/H5P/H5PRunner.js: the H5P archive         *)
(* pipeline of Kolibri's hashi.  One run of H5PRunner.init is modelled:    *)
(* dependency resolution (recurseDependencies), the load order            *)
(* (setDependencies, with toposort-class), the virtual asset store         *)
(* (processFiles), stylesheet rewriting (replacePaths,                     *)
(* processCssDependencies), and the ordered loader (loadDependencies,      *)
(* scriptLoader, initH5P).                                                 *)
(*                                                                         *)
(* One action is one task of the JavaScript event loop: the callback that  *)
(* the task runs together with every promise reaction (microtask) that it  *)
(* triggers.  Tasks are the completions of JSZip reads, the iframe's load  *)
(* event and the load/error events of injected scripts.                    *)
(*                                                                         *)
(* Strings that the code only compares are TLA+ strings.  Strings that the *)
(* code searches or cuts (archive entry names, stylesheet text, url        *)
(* references) are sequences of lexemes such as <<"img/", "a.png">>.       *)
(***************************************************************************)
EXTENDS Naturals, Sequences, FiniteSets, TLC

(***************************************************************************)
(* Generic helpers on sequences.                                           *)
(***************************************************************************)
Range(s) == {s[i] : i \in 1..Len(s)}

Reverse(s) == [i \in 1..Len(s) |-> s[Len(s) + 1 - i]]

\* Array.prototype.indexOf: the first index holding x, 0 when there is none.
IndexOf(s, x) ==
    IF x \in Range(s) THEN CHOOSE i \in 1..Len(s) : s[i] = x /\ \A j \in 1..(i - 1) : s[j] # x
    ELSE 0


(***************************************************************************)
(* The archive.  A zip is a sequence of entries [name, content]; a name is *)
(* a sequence of lexemes ("A/library.json" is <<"A/", "library.json">>).   *)
(* The content of a descriptor (h5p.json, library.json) is its parsed      *)
(* JSON; a dependency {machineName, majorVersion, minorVersion} is written *)
(* as the lexemes of `${machineName}-${majorVersion}.${minorVersion}`.     *)
(***************************************************************************)
\* `${dep.machineName}-${dep.majorVersion}.${dep.minorVersion}/`
PackagePathOf(dep) == [dep EXCEPT ![Len(dep)] = @ \o "/"]

\* packagePath + 'library.json'
LibraryJson(packagePath) == packagePath \o <<"library.json">>

H5pJson == <<"h5p.json">>

\* The packagePath of the root invocation (the default parameter '').
NoPackage == <<>>

Descriptor(deps, js, css, main) ==
    [preloadedDependencies |-> deps, preloadedJs |-> js, preloadedCss |-> css,
     mainLibrary |-> main]

RootEntry(deps, main) ==
    [name |-> H5pJson, content |-> Descriptor(deps, <<>>, <<>>, main)]

LibEntry(dep, deps, js, css) ==
    [name |-> LibraryJson(PackagePathOf(dep)), content |-> Descriptor(deps, js, css, <<>>)]

FileEntry(name, content) == [name |-> name, content |-> content]

\* JSZip.file(name): the entry of that exact name, or null (0 here).
ZipFile(z, name) ==
    IF \E i \in 1..Len(z) : z[i].name = name
    THEN CHOOSE i \in 1..Len(z) : z[i].name = name
    ELSE 0

(***************************************************************************)
(* Text as lexemes.  A stylesheet, an entry name and a url reference are   *)
(* sequences of lexemes: "url(", a quote, ")", a directory with its slash  *)
(* ("img/", "../", "./"), a file name ("a.png"), a leading "/", a query or *)
(* fragment ("?v=1", "#iefix"), a scheme with its authority                *)
(* ("http://c.c/"), and any other run of characters.  Every occurrence of  *)
(* the characters of one of these lexemes in a text is that lexeme.        *)
(***************************************************************************)
\* s.indexOf(pattern) on lexemes: the first place pattern occurs, 0 if none.
FindFirst(s, pattern) ==
    LET at(i) == SubSeq(s, i, i + Len(pattern) - 1) = pattern
        places == {i \in 1..(Len(s) + 1 - Len(pattern)) : at(i)}
    IN  IF Len(pattern) > Len(s) \/ places = {} THEN 0
        ELSE CHOOSE i \in places : \A j \in places : i <= j

\* new RegExp(escapeRegExp(pattern)).test(s), /content\//.test(s)
ContainsText(s, pattern) == FindFirst(s, pattern) # 0

\* s.replace(pattern, replacement) with a string pattern: the first
\* occurrence only.
ReplaceFirst(s, pattern, replacement) ==
    LET i == FindFirst(s, pattern)
    IN  IF i = 0 THEN s
        ELSE SubSeq(s, 1, i - 1) \o replacement \o SubSeq(s, i + Len(pattern), Len(s))

UrlOpen == "url("
CloseParen == ")"
Quotes == {"'", "\""}
\* The characters [^"')] of group 2 are every lexeme but these.
Delimiters == Quotes \cup {CloseParen}

DotDot == "../"
Dot == "./"
Slash == "/"
Queries == {"?v=1", "#iefix"}
\* An absolute URL's scheme and authority, up to the slash that starts its path.
Authorities == {"http://c.c/"}
\* A reference the URL parser rejects (new URL throws a TypeError).
InvalidUrl == "http://["

\* The URL parser's percent-encoding of a path: a space becomes %20.
PercentEncode(lexeme) ==
    CASE lexeme = "a b.png" -> "a%20b.png"
      [] lexeme = "my img/" -> "my%20img/"
      [] OTHER -> lexeme

\* The directory lexemes of the archives below, as written and as encoded.
Directories == {"img/", "css/", "fonts/", "my img/", "my%20img/"}

IsDirectory(lexeme) == lexeme \in Directories

RECURSIVE RemoveDotSegments(_, _, _)
\* The URL parser's path state: "./" is skipped, "../" shortens the path by
\* one directory (never above the root), a query or fragment ends the path.
\* dirs is the path so far, all directories.
RemoveDotSegments(ref, i, dirs) ==
    IF i > Len(ref) \/ ref[i] \in Queries THEN dirs
    ELSE IF ref[i] = Dot THEN RemoveDotSegments(ref, i + 1, dirs)
    ELSE IF ref[i] = DotDot
    THEN RemoveDotSegments(ref, i + 1,
                           IF Len(dirs) = 0 THEN dirs ELSE SubSeq(dirs, 1, Len(dirs) - 1))
    ELSE RemoveDotSegments(ref, i + 1, Append(dirs, PercentEncode(ref[i])))

\* The directories of a path: the path without its last segment when that
\* is a file name.
DirectoryOf(path) ==
    IF Len(path) > 0 /\ ~IsDirectory(path[Len(path)])
    THEN SubSeq(path, 1, Len(path) - 1) ELSE path

\* new URL(dep, 'http://b.b/').pathname.substring(1)
BasePathOf(dep) == RemoveDotSegments(dep, 1, <<>>)

\* new URL(p2, new URL(dep, 'http://b.b/')).pathname.substring(1):
\* [thrown, path].  An absolute URL keeps only its own path; a reference
\* that starts with "/" is taken from the root; a reference that is only a
\* query or fragment keeps the stylesheet's path; any other is joined to
\* the stylesheet's directory.
UrlPathname(p2, dep) ==
    LET base == BasePathOf(dep)
    IN  IF Len(p2) > 0 /\ p2[1] = InvalidUrl THEN [thrown |-> TRUE, path |-> <<>>]
        ELSE IF Len(p2) > 0 /\ p2[1] \in Authorities \cup {Slash}
        THEN [thrown |-> FALSE, path |-> RemoveDotSegments(p2, 2, <<>>)]
        ELSE IF Len(p2) = 0 \/ p2[1] \in Queries
        THEN [thrown |-> FALSE, path |-> base]
        ELSE [thrown |-> FALSE, path |-> RemoveDotSegments(p2, 1, DirectoryOf(base))]

\* undefined, as a string (new URL(undefined, base) reads "undefined").
Undefined == <<"undefined">>

\* What every object literal inherits: Object.prototype.constructor, and how
\* a template literal prints that function.
InheritedKeys == {<<"constructor">>}

NativeFunction == <<"function Object(", CloseParen, " { [native code] }">>

\* obj[key] of an object literal used as a map: its own property, else the
\* inherited one, else undefined
MapGet(obj, key) ==
    IF key \in DOMAIN obj THEN obj[key]
    ELSE IF key \in InheritedKeys THEN NativeFunction
    ELSE Undefined

\* if (newUrl): neither undefined nor the empty string
Truthy(value) == value # Undefined /\ value # <<>>

\* The replacer function of replacePaths, lines 66-86.
ReplaceMatch(dep, files, match, p1, p2, p3) ==
    LET url == UrlPathname(p2, dep)
        newUrl == MapGet(files, url.path)
    IN  IF ~url.thrown /\ Truthy(newUrl) THEN p1 \o newUrl \o p3 ELSE match

\* One attempt of cssPathRegex at place i of text, which holds "url(":
\* [found, p1, p2, p3, last].
MatchAt(text, i) ==
    LET n == Len(text)
        q1 == IF i + 1 <= n /\ text[i + 1] \in Quotes THEN 1 ELSE 0
        from == i + 1 + q1
        \* the greedy run of group 2 ends before the first delimiter
        stops == {k \in from..n : text[k] \in Delimiters}
        stop == IF stops = {} THEN n + 1 ELSE CHOOSE k \in stops : \A j \in stops : k <= j
        q2 == IF stop <= n /\ text[stop] \in Quotes THEN 1 ELSE 0
        last == stop + q2
        found == last <= n /\ text[last] = CloseParen
    IN  IF ~found THEN [found |-> FALSE, p1 |-> <<>>, p2 |-> <<>>, p3 |-> <<>>, last |-> i]
        ELSE [found |-> TRUE,
              p1 |-> SubSeq(text, i, i + q1),
              p2 |-> IF stop > from THEN SubSeq(text, from, stop - 1) ELSE Undefined,
              p3 |-> SubSeq(text, stop, last),
              last |-> last]

RECURSIVE ReplaceAll(_, _, _, _, _)
\* String.prototype.replace with the global cssPathRegex, line 66.
ReplaceAll(dep, files, text, i, out) ==
    IF i > Len(text) THEN out
    ELSE IF text[i] = UrlOpen /\ MatchAt(text, i).found
    THEN LET m == MatchAt(text, i)
         IN  ReplaceAll(dep, files, text, m.last + 1,
                        out \o ReplaceMatch(dep, files, SubSeq(text, i, m.last), m.p1, m.p2, m.p3))
    ELSE ReplaceAll(dep, files, text, i + 1, Append(out, text[i]))

\* replacePaths(dep, packageFiles), lines 65-87: [thrown, css].
\* packageFiles[dep].replace throws a TypeError when there is no such entry.
replacePaths(dep, files) ==
    IF dep \notin DOMAIN files THEN [thrown |-> TRUE, css |-> <<>>]
    ELSE [thrown |-> FALSE, css |-> ReplaceAll(dep, files, files[dep], 1, <<>>)]

(***************************************************************************)
(* toposort-class (imported at line 7, used by setDependencies).           *)
(* An edge is <<item, dep>>, or <<item>> for an item added with no         *)
(* dependencies.  sort() walks the nodes depth first, writes each node     *)
(* into `sorted` from the last place down once its dependencies are        *)
(* placed, and throws "Cyclic dependency found" when it meets a node that  *)
(* is among its own predecessors.                                          *)
(***************************************************************************)
\* Toposort.add(item, deps)
ToposortAdd(edges, item, deps) ==
    IF Len(deps) > 0
    THEN edges \o [i \in 1..Len(deps) |-> <<item, deps[i]>>]
    ELSE Append(edges, <<item>>)

RECURSIVE UniqueNodes(_, _, _, _)
\* "accumulate unique nodes into a large list": edge by edge, node by node.
UniqueNodes(edges, i, j, nodes) ==
    IF i > Len(edges) THEN nodes
    ELSE IF j > Len(edges[i]) THEN UniqueNodes(edges, i + 1, 1, nodes)
    ELSE UniqueNodes(edges, i, j + 1,
                     IF edges[i][j] \in Range(nodes) THEN nodes ELSE Append(nodes, edges[i][j]))

EdgeTarget(edge) == IF Len(edge) >= 2 THEN edge[2] ELSE Undefined

RECURSIVE ToposortVisit(_, _, _, _), ToposortFollow(_, _, _, _, _)
\* visit(node, predecessors).  st.live holds the nodes not yet marked false,
\* st.placed the nodes in the order sorted[--place] = node stored them.
ToposortVisit(edges, st, node, predecessors) ==
    IF st.thrown THEN st
    ELSE IF Len(predecessors) # 0 /\ node \in Range(predecessors)
    THEN [st EXCEPT !.thrown = TRUE]
    ELSE IF node \in st.live
    THEN LET marked == [st EXCEPT !.live = @ \ {node}]
             after  == ToposortFollow(edges, marked, node, Append(predecessors, node), 1)
         IN  IF after.thrown THEN after ELSE [after EXCEPT !.placed = Append(@, node)]
    ELSE st

\* "loop through all edges and follow dependencies of the current node"
ToposortFollow(edges, st, node, copy, i) ==
    IF st.thrown \/ i > Len(edges) THEN st
    ELSE IF edges[i][1] = node
    THEN ToposortFollow(edges, ToposortVisit(edges, st, EdgeTarget(edges[i]), copy), node, copy, i + 1)
    ELSE ToposortFollow(edges, st, node, copy, i + 1)

RECURSIVE ToposortLoop(_, _, _, _)
\* The outer loop of sort() over the unique nodes.
ToposortLoop(edges, nodes, i, st) ==
    IF st.thrown \/ i > Len(nodes) THEN st
    ELSE IF nodes[i] \in st.live
    THEN LET marked == [st EXCEPT !.live = @ \ {nodes[i]}]
             after  == ToposortFollow(edges, marked, nodes[i], <<nodes[i]>>, 1)
         IN  ToposortLoop(edges, nodes, i + 1,
                          IF after.thrown THEN after
                          ELSE [after EXCEPT !.placed = Append(@, nodes[i])])
    ELSE ToposortLoop(edges, nodes, i + 1, st)

\* Toposort.sort(): [thrown, sorted].  The first node placed takes the last
\* index of `sorted`.
ToposortSort(edges) ==
    LET nodes == UniqueNodes(edges, 1, 1, <<>>)
        st    == ToposortLoop(edges, nodes, 1,
                              [live |-> Range(nodes), placed |-> <<>>, thrown |-> FALSE])
    IN  [thrown |-> st.thrown, sorted |-> Reverse(st.placed)]

(***************************************************************************)
(* State of one H5PRunner.                                                 *)
(***************************************************************************)
VARIABLES
    zip,                \* this.zip: the archive being loaded
    stage,              \* how far the promise chain of init() has come
    error,              \* why that chain rejected, "none" while it has not
    calls,              \* the invocations of recurseDependencies
    dependencies,       \* this.dependencies
    library,            \* this.library
    rootConfig,         \* this.rootConfig
    packageFiles,       \* this.packageFiles
    cssDependencies,    \* this.cssDependencies
    jsDependencies,     \* this.jsDependencies
    sortedDependencies, \* this.sortedDependencies
    contentPaths,       \* this.contentPaths
    contentJson,        \* this.contentJson
    loadedJs,           \* this.loadedJs (its keys)
    loadedCss,          \* this.loadedCss (its keys)
    reads,              \* the entry reads of processFiles still pending
    iframeComplete,     \* iframe.contentDocument.readyState === 'complete'
    loadListener,       \* the 'load' listener of line 188 is registered
    shimmed,            \* shimH5P has installed the overrides
    document,           \* the elements appended to the iframe's body, in order
    jsTier,             \* the script tier loadDependencies is waiting for
    h5pInitCalls,       \* how often H5P.init() was called
    rewrite,            \* a call of the exported replacePaths on its own
    clock,              \* Date.now(), in seconds
    xAPI,               \* contentWindow.xAPI is there
    debouncedHandlers,  \* debouncedHandlers of shimH5P, by verb id
    events,             \* the xAPI events H5P.externalDispatcher has triggered
    sendStatements,     \* the calls of contentWindow.xAPI.sendStatement
    handed,             \* what an overridden lookup last returned to H5P
    data,               \* this.data: the user data, by subContentId and dataId
    userCalls,          \* how many user-data calls H5P has made
    lastCall,           \* the last of them, with its arguments
    stateUpdates,       \* how often this.shim.stateUpdated() was called
    errorCallbacks,     \* how often an errorCallback was called
    doneData            \* what the last done callback was given as data

resolveVars == <<calls, dependencies, library, rootConfig>>
storeVars == <<packageFiles, cssDependencies, jsDependencies, sortedDependencies,
               contentPaths, contentJson, loadedJs, loadedCss, reads>>
frameVars == <<iframeComplete, loadListener>>
loaderVars == <<shimmed, document, jsTier, h5pInitCalls>>

userVars == <<data, userCalls, lastCall, stateUpdates, errorCallbacks, doneData>>

shimVars == <<clock, xAPI, debouncedHandlers, events, sendStatements, handed, userVars>>

vars == <<zip, stage, error, resolveVars, storeVars, frameVars, loaderVars, rewrite,
          shimVars>>

\* null / not yet assigned
Null == <<>>

\* A JavaScript object used as a map with no key yet: {}.
EmptyMap == [k \in {} |-> Null]

\* The iframe before shimH5P has run: no handler, no event, no statement.
Unshimmed ==
    /\ clock = 0
    /\ xAPI = FALSE
    /\ debouncedHandlers = EmptyMap
    /\ events = <<>>
    /\ sendStatements = <<>>
    /\ handed = <<>>
    /\ data = EmptyMap
    /\ userCalls = 0
    /\ lastCall = <<>>
    /\ stateUpdates = 0
    /\ errorCallbacks = 0
    /\ doneData = <<>>

\* obj[key] = value
MapSet(obj, key, value) ==
    [k \in DOMAIN obj \cup {key} |-> IF k = key THEN value ELSE obj[k]]

\* this.cssDependencies and this.jsDependencies hold an object keyed by
\* package path until processCssDependencies and processJsDependencies
\* assign an array of tiers (lines 529, 545): the value is kept with its
\* kind.
Object(map) == <<"object", map>>

Array(tiers) == <<"array", tiers>>

ValueOf(field) == field[2]

(***************************************************************************)
(* recurseDependencies(jsonFile, root, visitedPaths, packagePath).         *)
(* An invocation is a record of `calls`:                                   *)
(*   packagePath   the package it reads ('' for the root),                 *)
(*   parent        the invocation that made it, whose visitedPaths object  *)
(*                 it was handed (0: the root, handed the default {}),     *)
(*   state         "reading"  the descriptor read is pending,              *)
(*                 "waiting"  Promise.all over its dependencies is pending,*)
(*                 "resolved" or "rejected",                               *)
(*   visitedPaths  its own copy, made when the read completes,             *)
(*   results       one [packagePath, call] per declared dependency: the    *)
(*                 promise the map callback returned (call = 0:            *)
(*                 Promise.resolve(packagePath)).                          *)
(***************************************************************************)
NewCall(packagePath, parent) ==
    [packagePath |-> packagePath, parent |-> parent, state |-> "reading",
     visitedPaths |-> {}, results |-> <<>>]

JsonFileOf(call) ==
    IF call.parent = 0 THEN H5pJson ELSE LibraryJson(call.packagePath)

\* One visited set for the whole resolution instead of one per invocation.
VisitedArgument_Global(cs, c) ==
    UNION {cs[k].visitedPaths : k \in 1..Len(cs)}

\* The visitedPaths argument of an invocation: the default {} for the root,
\* the caller's object otherwise (read when the callback runs).
VisitedArgument(cs, c) ==
    IF cs[c].parent = 0 THEN {} ELSE cs[cs[c].parent].visitedPaths

\* The callback of dependencies.map skipping a dependency whose library.json
\* is not in the archive, as it skips a visited one.
MapDependency_SkipAbsent(z, m, c, root, json, dep) ==
    LET packagePath == PackagePathOf(dep)
        lib == IF root /\ m.library = Null /\ dep = json.mainLibrary THEN dep ELSE m.library
    IN  IF packagePath \in m.visitedPaths \/ ZipFile(z, LibraryJson(packagePath)) = 0
        THEN [m EXCEPT !.library = lib,
                       !.results = Append(@, [packagePath |-> packagePath, call |-> 0])]
        ELSE [m EXCEPT !.library = lib,
                       !.visitedPaths = @ \cup {packagePath},
                       !.calls = Append(@, NewCall(packagePath, c)),
                       !.results = Append(@, [packagePath |-> packagePath,
                                              call |-> Len(m.calls) + 1])]

\* One run of the callback of dependencies.map (lines 480-503).  m carries
\* what the loop changes: visitedPaths, the promises returned so far, the
\* invocations made, this.library, and whether the callback threw.
MapDependency(z, m, c, root, json, dep) ==
    LET packagePath == PackagePathOf(dep)
        lib == IF root /\ m.library = Null /\ dep = json.mainLibrary THEN dep ELSE m.library
    IN  IF m.thrown THEN m
        ELSE IF packagePath \in m.visitedPaths
        THEN [m EXCEPT !.library = lib,
                       !.results = Append(@, [packagePath |-> packagePath, call |-> 0])]
        ELSE IF ZipFile(z, LibraryJson(packagePath)) = 0
        \* this.zip.file(jsonFile) is null: .async throws a TypeError
        THEN [m EXCEPT !.library = lib,
                       !.visitedPaths = @ \cup {packagePath},
                       !.thrown = TRUE]
        ELSE [m EXCEPT !.library = lib,
                       !.visitedPaths = @ \cup {packagePath},
                       !.calls = Append(@, NewCall(packagePath, c)),
                       !.results = Append(@, [packagePath |-> packagePath,
                                              call |-> Len(m.calls) + 1])]

RECURSIVE MapDependencies(_, _, _, _, _, _)
MapDependencies(z, m, c, root, json, i) ==
    IF i > Len(json.preloadedDependencies) THEN m
    ELSE MapDependencies(z, MapDependency(z, m, c, root, json, json.preloadedDependencies[i]),
                         c, root, json, i + 1)

\* Promise.all when the promise returned for a visited dependency (line 488)
\* never settles.
AllFulfilled_VisitedPending(cs, c) ==
    \A i \in 1..Len(cs[c].results) :
        cs[c].results[i].call # 0 /\ cs[cs[c].results[i].call].state = "resolved"

\* Promise.all fulfilling without waiting for the promises it was given.
AllFulfilled_NoWait(cs, c) == TRUE

\* Promise.all over the promises the map returned has fulfilled.
AllFulfilled(cs, c) ==
    \A i \in 1..Len(cs[c].results) :
        cs[c].results[i].call = 0 \/ cs[cs[c].results[i].call].state = "resolved"

\* The record pushed at lines 510-517.
DependencyRecord(z, cs, c) ==
    LET json == z[ZipFile(z, JsonFileOf(cs[c]))].content
    IN  [packagePath  |-> cs[c].packagePath,
         dependencies |-> [i \in 1..Len(cs[c].results) |-> cs[c].results[i].packagePath],
         preloadedCss |-> json.preloadedCss,
         preloadedJs  |-> json.preloadedJs]

RECURSIVE Fulfil(_, _, _)
\* The reactions that run once invocation c has all its dependencies: the
\* callback at lines 504-519 pushes the record, c fulfils, and the caller's
\* Promise.all is looked at in turn.  s = [calls, dependencies].
Fulfil(z, s, c) ==
    IF s.calls[c].state = "waiting" /\ AllFulfilled(s.calls, c)
    THEN LET pushed == IF s.calls[c].packagePath # NoPackage
                       THEN Append(s.dependencies, DependencyRecord(z, s.calls, c))
                       ELSE s.dependencies
             next == [calls |-> [s.calls EXCEPT ![c].state = "resolved"],
                      dependencies |-> pushed]
         IN  IF s.calls[c].parent = 0 THEN next ELSE Fulfil(z, next, s.calls[c].parent)
    ELSE s

RECURSIVE Reject(_, _)
\* Invocation c rejects: so does the Promise.all of its caller, and so on up
\* to the root.  Invocations already made go on.
Reject(cs, c) ==
    IF cs[c].state \in {"reading", "waiting"}
    THEN LET next == [cs EXCEPT ![c].state = "rejected"]
         IN  IF cs[c].parent = 0 THEN next ELSE Reject(next, cs[c].parent)
    ELSE cs

(***************************************************************************)
(* The virtual asset store: processFiles, processContent,                  *)
(* processPackageFile, processCssDependencies, processJsDependencies.      *)
(***************************************************************************)
RECURSIVE Join(_)
\* The lexemes of a text as one string.
Join(s) == IF Len(s) = 0 THEN "" ELSE s[1] \o Join(Tail(s))

\* URL.createObjectURL(blob): a URL of its own for every blob made.  A blob
\* is made once per entry read (for `owner`: a packagePath, or the content
\* folder) and once per rewritten stylesheet.
BlobUrl(owner, name) == <<"blob:", Join(owner) \o ":" \o Join(name)>>

IsBlobUrl(value) == Len(value) = 2 /\ value[1] = "blob:"

ContentFolder == <<"content/">>
ContentJsonName == <<"content.json">>

\* JSZip.file(regex): the entries whose name the regex matches, in archive
\* order (as indices).
ZipFilesMatching(z, pattern) ==
    LET hit(i) == ContainsText(z[i].name, pattern)
        F[i \in 0..Len(z)] ==
            IF i = 0 THEN <<>> ELSE IF hit(i) THEN Append(F[i - 1], i) ELSE F[i - 1]
    IN  F[Len(z)]

\* processContent(file), lines 564-577: the read it starts.
ContentRead(z, e) ==
    LET fileName == ReplaceFirst(z[e].name, ContentFolder, <<>>)
    IN  [kind |-> "content", entry |-> e, packagePath |-> NoPackage, fileName |-> fileName,
         as |-> IF fileName = ContentJsonName THEN "string" ELSE "uint8array"]

\* processPackageFile(file, packagePath), lines 582-608: the read it starts.
\* A declared script is read as bytes, a declared style (that is no declared
\* script) as a string, any other file as bytes.
PackageRead(z, e, packagePath, js, css) ==
    LET fileName == ReplaceFirst(z[e].name, packagePath, <<>>)
        jsFile == IndexOf(js[packagePath], fileName) > 0
        cssFile == IndexOf(css[packagePath], fileName) > 0
    IN  [kind |-> "package", entry |-> e, packagePath |-> packagePath, fileName |-> fileName,
         as |-> IF ~jsFile /\ cssFile THEN "string" ELSE "uint8array"]

\* Object.keys(obj) in insertion order: the packagePaths in the order
\* setDependencies first set them.
RECURSIVE KeysInOrder(_, _, _)
KeysInOrder(deps, i, keys) ==
    IF i > Len(deps) THEN keys
    ELSE KeysInOrder(deps, i + 1,
                     IF deps[i].packagePath \in Range(keys) THEN keys
                     ELSE Append(keys, deps[i].packagePath))

\* processFiles(), lines 613-626, up to Promise.all: the reads started and
\* the flags set while starting them.  [reads, loadedJs, loadedCss]
ProcessFilesResult(z, keys, js, css) ==
    LET contentFiles == ZipFilesMatching(z, ContentFolder)
        contentReads == {ContentRead(z, contentFiles[i]) : i \in 1..Len(contentFiles)}
        packageReads ==
            UNION {LET files == ZipFilesMatching(z, keys[k])
                   IN  {PackageRead(z, files[i], keys[k], js, css) : i \in 1..Len(files)}
                   : k \in 1..Len(keys)}
        isJs(r) == IndexOf(js[r.packagePath], r.fileName) > 0
    IN  [reads |-> contentReads \cup packageReads,
         loadedJs |-> {z[r.entry].name : r \in {x \in packageReads : isJs(x)}},
         loadedCss |-> {z[r.entry].name : r \in {x \in packageReads : x.as = "string"}}]

\* An ordered object {key: value}: a sequence of [key, value], a key set
\* again keeps its place.
FileMapSet(fileMap, key, value) ==
    IF \E i \in 1..Len(fileMap) : fileMap[i].key = key
    THEN [i \in 1..Len(fileMap) |->
            IF fileMap[i].key = key THEN [key |-> key, value |-> value] ELSE fileMap[i]]
    ELSE Append(fileMap, [key |-> key, value |-> value])

\* The blob URL made at line 550 for a rewritten stylesheet.
CssBlobUrl(dependency, cssDep) == BlobUrl(<<"css:">> \o dependency, cssDep)

RECURSIVE RewriteStyles(_, _, _, _)
\* The inner map of processCssDependencies, lines 548-554, over the declared
\* styles of one package.  s = [thrown, files, fileMap], files being
\* this.packageFiles[dependency].
RewriteStyles(dependency, styles, i, s) ==
    IF s.thrown \/ i > Len(styles) THEN s
    ELSE LET r == replacePaths(styles[i], s.files)
         IN  RewriteStyles(dependency, styles, i + 1,
                IF r.thrown THEN [s EXCEPT !.thrown = TRUE]
                ELSE [thrown  |-> FALSE,
                      files   |-> MapSet(s.files, styles[i], r.css),
                      fileMap |-> FileMapSet(s.fileMap, styles[i],
                                             CssBlobUrl(dependency, styles[i]))])

RECURSIVE ProcessCss(_, _, _, _)
\* processCssDependencies(), lines 544-557.  s = [thrown, packageFiles,
\* plan]; this.cssDependencies[dependency] is read from the map `css` that
\* setDependencies filled, and throws a TypeError where it has no such key.
ProcessCss(sorted, css, i, s) ==
    IF s.thrown \/ i > Len(sorted) THEN s
    ELSE IF sorted[i] \notin DOMAIN css THEN [s EXCEPT !.thrown = TRUE]
    ELSE LET r == RewriteStyles(sorted[i], css[sorted[i]], 1,
                                [thrown |-> FALSE, files |-> s.packageFiles[sorted[i]],
                                 fileMap |-> <<>>])
         IN  ProcessCss(sorted, css, i + 1,
                [thrown       |-> r.thrown,
                 packageFiles |-> [s.packageFiles EXCEPT ![sorted[i]] = r.files],
                 plan         |-> Append(s.plan, [dependency |-> sorted[i],
                                                  fileMap |-> r.fileMap])])

RECURSIVE ScriptFileMap(_, _, _, _)
\* The inner map of processJsDependencies, lines 532-534.
ScriptFileMap(files, scripts, i, fileMap) ==
    IF i > Len(scripts) THEN fileMap
    ELSE ScriptFileMap(files, scripts, i + 1,
                       FileMapSet(fileMap, scripts[i], MapGet(files, scripts[i])))

RECURSIVE ProcessJs_OnlyDeclaring(_, _, _, _, _)
\* processJsDependencies leaving out the packages that declare no script.
ProcessJs_OnlyDeclaring(sorted, js, files, i, s) ==
    IF s.thrown \/ i > Len(sorted) THEN s
    ELSE IF sorted[i] \notin DOMAIN js THEN [s EXCEPT !.thrown = TRUE]
    ELSE ProcessJs_OnlyDeclaring(sorted, js, files, i + 1,
            [thrown |-> FALSE,
             plan   |-> IF js[sorted[i]] = <<>> THEN s.plan
                        ELSE Append(s.plan,
                               [dependency |-> sorted[i],
                                fileMap |-> ScriptFileMap(files[sorted[i]], js[sorted[i]],
                                                          1, <<>>)])])

RECURSIVE ProcessJs(_, _, _, _, _)
\* processJsDependencies(), lines 528-537.  s = [thrown, plan]
ProcessJs(sorted, js, files, i, s) ==
    IF s.thrown \/ i > Len(sorted) THEN s
    ELSE IF sorted[i] \notin DOMAIN js THEN [s EXCEPT !.thrown = TRUE]
    ELSE ProcessJs(sorted, js, files, i + 1,
            [thrown |-> FALSE,
             plan   |-> Append(s.plan,
                               [dependency |-> sorted[i],
                                fileMap |-> ScriptFileMap(files[sorted[i]], js[sorted[i]],
                                                          1, <<>>)])])

(***************************************************************************)
(* The ordered loader: loadDependencies, scriptLoader, initH5P.            *)
(***************************************************************************)
\* scriptLoader(url, css), lines 414-435: the element appended to the body.
\* A link resolves at once; a script waits for its load or error event.
Element(url, css, tier) ==
    [tag |-> IF css THEN "link" ELSE "script", url |-> url, tier |-> tier,
     state |-> IF css THEN "assumed" ELSE "loading"]

\* Promise.all(Object.values(depMap.fileMap).map(url => scriptLoader(url, css)))
InjectTier(doc, plan, tier, css) ==
    doc \o [i \in 1..Len(plan[tier].fileMap) |-> Element(plan[tier].fileMap[i].value, css, tier)]

RECURSIVE LoadStyles(_, _, _)
\* loadDependencies(this.cssDependencies, true), lines 205-215: every tier
\* resolves as it is injected.
LoadStyles(doc, plan, tier) ==
    IF tier > Len(plan) THEN doc
    ELSE LoadStyles(InjectTier(doc, plan, tier, TRUE), plan, tier + 1)

RECURSIVE LoadScripts_NoWait(_, _, _)
\* loadDependencies injecting the next tier without waiting for the promises
\* of scriptLoader.
LoadScripts_NoWait(doc, plan, tier) ==
    IF tier > Len(plan) THEN [document |-> doc, tier |-> tier]
    ELSE LoadScripts_NoWait(InjectTier(doc, plan, tier, FALSE), plan, tier + 1)

RECURSIVE LoadScripts(_, _, _)
\* loadDependencies(this.jsDependencies) from tier `tier` on: tiers are
\* injected up to the first that has a script to wait for.  [document, tier]
LoadScripts(doc, plan, tier) ==
    IF tier > Len(plan) THEN [document |-> doc, tier |-> tier]
    ELSE IF Len(plan[tier].fileMap) = 0 THEN LoadScripts(doc, plan, tier + 1)
    ELSE [document |-> InjectTier(doc, plan, tier, FALSE), tier |-> tier]

\* initH5P loading the scripts before the styles.
InitH5PResult_ScriptsFirst(doc, styles, scripts) ==
    LET r == LoadScripts(doc, scripts, 1)
    IN  [document |-> LoadStyles(r.document, styles, 1), tier |-> r.tier]

\* initH5P(), lines 220-227, up to the first script tier that must be waited
\* for: [document, tier].
InitH5PResult(doc, styles, scripts) == LoadScripts(LoadStyles(doc, styles, 1), scripts, 1)

\* Every script of the tier has delivered its load event.
TierLoaded(doc, tier) ==
    \A i \in 1..Len(doc) : doc[i].tag = "script" /\ doc[i].tier = tier => doc[i].state = "loaded"

(***************************************************************************)
(* Archives the model is run on.                                           *)
(***************************************************************************)
A == <<"A">>
B == <<"B">>
C == <<"C">>
D == <<"D">>

PackageNames == <<A, B, C, D>>

\* The most dependencies the descriptors of a generated archive declare
\* between packages.
MaxEdges == 4

\* A declared dependency <<i, j>>: PackageNames[i] depends on PackageNames[j].
GraphEdges == (1..Len(PackageNames)) \X (1..Len(PackageNames))

RECURSIVE EdgeSetsUpTo(_)
EdgeSetsUpTo(k) ==
    IF k = 0 THEN {{}}
    ELSE LET smaller == EdgeSetsUpTo(k - 1)
         IN  smaller \cup {E \cup {e} : E \in smaller, e \in GraphEdges}

RECURSIVE ReachableFrom(_, _)
ReachableFrom(E, R) ==
    LET more == R \cup {e[2] : e \in {x \in E : x[1] \in R}}
    IN  IF more = R THEN R ELSE ReachableFrom(E, more)

\* The packages of the archive: those the root's dependency A leads to.
GraphPackages(E) == ReachableFrom(E, {1})

\* The dependencies package i declares, in the order of PackageNames.
GraphDependencies(E, i) ==
    LET F[j \in 0..Len(PackageNames)] ==
            IF j = 0 THEN <<>>
            ELSE IF <<i, j>> \in E THEN Append(F[j - 1], PackageNames[j]) ELSE F[j - 1]
    IN  F[Len(PackageNames)]

\* The archive of a dependency graph: h5p.json with the main library A, and
\* a library.json for every package but those in `absent`.
GraphZip(E, absent) ==
    LET F[j \in 0..Len(PackageNames)] ==
            IF j = 0 THEN <<RootEntry(<<A>>, A)>>
            ELSE IF j \in GraphPackages(E) \ absent
            THEN Append(F[j - 1], LibEntry(PackageNames[j], GraphDependencies(E, j), <<>>, <<>>))
            ELSE F[j - 1]
    IN  F[Len(PackageNames)]

\* Every graph of at most MaxEdges declared dependencies, all of them
\* declared by packages of the archive, with every descriptor present or
\* with one of them absent.
GraphArchives ==
    {GraphZip(E, absent) :
        <<E, absent>> \in
            {<<E, absent>> \in EdgeSetsUpTo(MaxEdges) \X ({{}} \cup {{j} : j \in 1..Len(PackageNames)}) :
                /\ \A e \in E : e[1] \in GraphPackages(E)
                /\ absent \subseteq GraphPackages(E)}}

\* An archive with scripts, styles, images and content: the root declares A
\* and B, A depends on B.
ACss == <<"css/", "a.css">>
BCss == <<"b.css">>
AJs == <<"a.js">>
B1Js == <<"b1.js">>
B2Js == <<"b2.js">>
Bytes == <<"bytes">>

CourseZip ==
    << RootEntry(<<A, B>>, A),
       LibEntry(A, <<B>>, <<AJs>>, <<ACss>>),
       LibEntry(B, <<>>, <<B1Js, B2Js>>, <<BCss>>),
       FileEntry(PackagePathOf(A) \o AJs, Bytes),
       FileEntry(PackagePathOf(A) \o ACss,
                 <<"a{", "url(", "'", "../", "img/", "a.png", "'", ")", "}">>),
       FileEntry(PackagePathOf(A) \o <<"img/", "a.png">>, Bytes),
       FileEntry(PackagePathOf(B) \o B1Js, Bytes),
       FileEntry(PackagePathOf(B) \o B2Js, Bytes),
       FileEntry(PackagePathOf(B) \o BCss, <<"b{", "url(", "b.png", ")", "}">>),
       FileEntry(ContentFolder \o ContentJsonName, <<"{}">>),
       FileEntry(ContentFolder \o <<"images/", "c.png">>, Bytes) >>

\* A chain A -> B -> C where only A and C have a script: the script tier of
\* B is empty.
CJs == <<"c.js">>

LessonZip ==
    << RootEntry(<<A>>, A),
       LibEntry(A, <<B>>, <<AJs>>, <<>>),
       LibEntry(B, <<C>>, <<>>, <<>>),
       LibEntry(C, <<>>, <<CJs>>, <<>>),
       FileEntry(PackagePathOf(A) \o AJs, Bytes),
       FileEntry(PackagePathOf(C) \o CJs, Bytes) >>

\* An archive whose package A has a folder named content/ and whose package
\* B has a folder named as the package path of A.
FolderZip ==
    << RootEntry(<<A, B>>, A),
       LibEntry(A, <<>>, <<AJs>>, <<>>),
       LibEntry(B, <<>>, <<>>, <<>>),
       FileEntry(PackagePathOf(A) \o AJs, Bytes),
       FileEntry(PackagePathOf(A) \o <<"content/", "x.png">>, Bytes),
       FileEntry(PackagePathOf(B) \o PackagePathOf(A) \o <<"y.png">>, Bytes),
       FileEntry(ContentFolder \o ContentJsonName, <<"{}">>),
       FileEntry(ContentFolder \o <<"images/", "c.png">>, Bytes) >>

Archives == GraphArchives \cup {CourseZip, LessonZip, FolderZip}

(***************************************************************************)
(* Actions.  The then-callbacks of init() are one action each, enabled     *)
(* once the promise they hang on has fulfilled.  The promise reactions     *)
(* inside recurseDependencies and loadDependencies run in the action of    *)
(* the task that settles them.                                             *)
(***************************************************************************)
\* The fields as init assigns them at lines 116-144; none is read before.
NewRunner ==
    /\ stage = "new"
    /\ error = "none"
    /\ calls = <<>>
    /\ dependencies = <<>>
    /\ library = Null
    /\ rootConfig = Null
    /\ packageFiles = EmptyMap
    /\ cssDependencies = Object(EmptyMap)
    /\ jsDependencies = Object(EmptyMap)
    /\ sortedDependencies = Null
    /\ contentPaths = EmptyMap
    /\ contentJson = <<>>
    /\ loadedJs = {}
    /\ loadedCss = {}
    /\ reads = {}
    /\ iframeComplete = FALSE
    /\ loadListener = FALSE
    /\ shimmed = FALSE
    /\ document = <<>>
    /\ jsTier = 0
    /\ h5pInitCalls = 0

Init ==
    /\ zip \in Archives
    /\ rewrite = Null
    /\ NewRunner
    /\ Unshimmed

\* init(iframe, filepath), lines 113-159: the fields are reset, the iframe
\* is pointed at the H5P page and the archive is requested.
InitRunner ==
    /\ stage = "new"
    /\ stage' = "loading"
    /\ UNCHANGED <<zip, rewrite, shimVars, error, resolveVars, storeVars, frameVars, loaderVars>>

\* .then(zip => ...), lines 161-166: the root invocation is made.
ZipLoaded ==
    /\ stage = "loading"
    /\ IF ZipFile(zip, H5pJson) = 0
       THEN /\ stage' = "rejected"
            /\ error' = "EntryNotFound"
            /\ calls' = calls
       ELSE /\ stage' = "resolving"
            /\ error' = error
            /\ calls' = <<NewCall(NoPackage, 0)>>
    /\ UNCHANGED <<zip, rewrite, shimVars, dependencies, library, rootConfig, storeVars, frameVars, loaderVars>>

\* The callback at lines 468-520 for invocation c, with the reactions it
\* settles: [calls, dependencies, library, rootConfig] after it.
ReadDescriptorResult(z, cs, deps, lib, config, c) ==
    LET root == cs[c].parent = 0
        json == z[ZipFile(z, JsonFileOf(cs[c]))].content
        m    == MapDependencies(z,
                    [visitedPaths |-> VisitedArgument(cs, c), results |-> <<>>,
                     calls |-> cs, library |-> lib, thrown |-> FALSE],
                    c, root, json, 1)
        made == [m.calls EXCEPT ![c].visitedPaths = m.visitedPaths,
                                ![c].results = m.results]
        s    == IF m.thrown
                THEN [calls |-> Reject(made, c), dependencies |-> deps]
                ELSE Fulfil(z, [calls |-> [made EXCEPT ![c].state = "waiting"],
                                dependencies |-> deps], c)
    IN  [calls |-> s.calls, dependencies |-> s.dependencies, library |-> m.library,
         rootConfig |-> IF root THEN json ELSE config]

\* The read of invocation c's descriptor completes.
ReadDescriptor(c) ==
    /\ c \in 1..Len(calls)
    /\ calls[c].state = "reading"
    /\ LET s == ReadDescriptorResult(zip, calls, dependencies, library, rootConfig, c)
       IN  /\ calls' = s.calls
           /\ dependencies' = s.dependencies
           /\ library' = s.library
           /\ rootConfig' = s.rootConfig
           /\ IF stage = "resolving" /\ s.calls[1].state = "rejected"
              THEN stage' = "rejected" /\ error' = "EntryNotFound"
              ELSE UNCHANGED <<stage, error>>
    /\ UNCHANGED <<zip, rewrite, shimVars, storeVars, frameVars, loaderVars>>

RECURSIVE AddDependencies(_, _, _)
\* The loop of setDependencies, lines 444-452.  s = [packageFiles,
\* cssDependencies, jsDependencies, edges].
AddDependencies(deps, i, s) ==
    IF i > Len(deps) THEN s
    ELSE AddDependencies(deps, i + 1,
            [packageFiles    |-> MapSet(s.packageFiles, deps[i].packagePath, EmptyMap),
             cssDependencies |-> MapSet(s.cssDependencies, deps[i].packagePath, deps[i].preloadedCss),
             jsDependencies  |-> MapSet(s.jsDependencies, deps[i].packagePath, deps[i].preloadedJs),
             edges           |-> ToposortAdd(s.edges, deps[i].packagePath, deps[i].dependencies)])

\* setDependencies without the .reverse() of line 454.
SetDependenciesResult_Unreversed ==
    LET s == AddDependencies(dependencies, 1,
                [packageFiles |-> packageFiles, cssDependencies |-> ValueOf(cssDependencies),
                 jsDependencies |-> ValueOf(jsDependencies), edges |-> <<>>])
        sorted == ToposortSort(s.edges)
    IN  [thrown |-> sorted.thrown,
         packageFiles |-> s.packageFiles,
         cssDependencies |-> Object(s.cssDependencies),
         jsDependencies |-> Object(s.jsDependencies),
         sortedDependencies |-> IF sorted.thrown THEN sortedDependencies
                                ELSE sorted.sorted]

\* setDependencies(), lines 441-455: [thrown, packageFiles, cssDependencies,
\* jsDependencies, sortedDependencies].
SetDependenciesResult ==
    LET s == AddDependencies(dependencies, 1,
                [packageFiles |-> packageFiles, cssDependencies |-> ValueOf(cssDependencies),
                 jsDependencies |-> ValueOf(jsDependencies), edges |-> <<>>])
        sorted == ToposortSort(s.edges)
    IN  [thrown |-> sorted.thrown,
         packageFiles |-> s.packageFiles,
         cssDependencies |-> Object(s.cssDependencies),
         jsDependencies |-> Object(s.jsDependencies),
         sortedDependencies |-> IF sorted.thrown THEN sortedDependencies
                                ELSE Reverse(sorted.sorted)]

\* .then(() => ...), lines 167-173: setDependencies, then processFiles up to
\* its Promise.all.
SetDependencies ==
    /\ stage = "resolving"
    /\ calls[1].state = "resolved"
    /\ LET r == SetDependenciesResult
           f == ProcessFilesResult(zip, KeysInOrder(dependencies, 1, <<>>),
                                   ValueOf(r.jsDependencies), ValueOf(r.cssDependencies))
       IN  /\ packageFiles' = r.packageFiles
           /\ cssDependencies' = r.cssDependencies
           /\ jsDependencies' = r.jsDependencies
           /\ sortedDependencies' = r.sortedDependencies
           /\ IF r.thrown
              THEN /\ stage' = "rejected"
                   /\ error' = "CyclicDependency"
                   /\ UNCHANGED <<reads, loadedJs, loadedCss>>
              ELSE /\ stage' = "processing"
                   /\ error' = error
                   /\ reads' = f.reads
                   /\ loadedJs' = f.loadedJs
                   /\ loadedCss' = f.loadedCss
    /\ UNCHANGED <<zip, rewrite, shimVars, resolveVars, contentPaths, contentJson, frameVars, loaderVars>>

\* One read of processFiles completes: the callback of processContent
\* (lines 567-571, 574-576) or of processPackageFile (599-601, 605-607).
ReadEntry(r) ==
    /\ r \in reads
    /\ reads' = reads \ {r}
    /\ IF r.kind = "content"
       THEN /\ IF r.as = "string"
               THEN contentJson' = zip[r.entry].content /\ contentPaths' = contentPaths
               ELSE /\ contentPaths' = MapSet(contentPaths, r.fileName,
                                              BlobUrl(ContentFolder, zip[r.entry].name))
                    /\ contentJson' = contentJson
            /\ packageFiles' = packageFiles
       ELSE /\ packageFiles' =
                  [packageFiles EXCEPT ![r.packagePath] =
                      MapSet(@, r.fileName,
                             IF r.as = "string" THEN zip[r.entry].content
                             ELSE BlobUrl(r.packagePath, zip[r.entry].name))]
            /\ UNCHANGED <<contentPaths, contentJson>>
    /\ UNCHANGED <<zip, rewrite, shimVars, stage, error, resolveVars, cssDependencies, jsDependencies,
                   sortedDependencies, loadedJs, loadedCss, frameVars, loaderVars>>

\* initH5P without its call of shimH5P.
StartH5P_NoShim(styles, scripts) ==
    LET r == InitH5PResult(document, styles, scripts)
    IN  /\ shimmed' = shimmed
        /\ document' = r.document
        /\ jsTier' = r.tier
        /\ IF r.tier > Len(scripts)
           THEN stage' = "initialized" /\ h5pInitCalls' = h5pInitCalls + 1
           ELSE stage' = "scripts" /\ h5pInitCalls' = h5pInitCalls

\* initH5P(), lines 220-227, up to the first wait: the values it leaves in
\* shimmed, document, jsTier, stage and h5pInitCalls.
StartH5P(styles, scripts) ==
    LET r == InitH5PResult(document, styles, scripts)
    IN  /\ shimmed' = TRUE
        /\ document' = r.document
        /\ jsTier' = r.tier
        /\ IF r.tier > Len(scripts)
           THEN stage' = "initialized" /\ h5pInitCalls' = h5pInitCalls + 1
           ELSE stage' = "scripts" /\ h5pInitCalls' = h5pInitCalls

\* .then(() => ...), lines 173-189, once every read of processFiles has
\* completed: the styles are rewritten, both load plans are made, and H5P
\* is started now or when the iframe has loaded.
ProcessDependencies ==
    /\ stage = "processing"
    /\ reads = {}
    /\ LET c == ProcessCss(sortedDependencies, ValueOf(cssDependencies), 1,
                           [thrown |-> FALSE, packageFiles |-> packageFiles, plan |-> <<>>])
           j == ProcessJs(sortedDependencies, ValueOf(jsDependencies), c.packageFiles, 1,
                          [thrown |-> FALSE, plan |-> <<>>])
       IN  /\ packageFiles' = c.packageFiles
           /\ IF c.thrown
              THEN /\ stage' = "rejected"
                   /\ error' = "TypeError"
                   /\ UNCHANGED <<cssDependencies, jsDependencies, loadListener, loaderVars>>
              ELSE /\ cssDependencies' = Array(c.plan)
                   /\ IF j.thrown
                      THEN /\ stage' = "rejected"
                           /\ error' = "TypeError"
                           /\ UNCHANGED <<jsDependencies, loadListener, loaderVars>>
                      ELSE /\ jsDependencies' = Array(j.plan)
                           /\ error' = error
                           /\ IF iframeComplete
                              THEN StartH5P(c.plan, j.plan) /\ loadListener' = loadListener
                              ELSE /\ stage' = "ready"
                                   /\ loadListener' = TRUE
                                   /\ UNCHANGED loaderVars
    /\ UNCHANGED <<zip, rewrite, shimVars, resolveVars, sortedDependencies, contentPaths, contentJson,
                   loadedJs, loadedCss, reads, iframeComplete>>

\* The iframe's document finishes loading; the listener of line 188 runs
\* initH5P when it is registered.
IframeLoad ==
    /\ stage # "new"
    /\ ~iframeComplete
    /\ iframeComplete' = TRUE
    /\ IF loadListener
       THEN StartH5P(ValueOf(cssDependencies), ValueOf(jsDependencies)) /\ error' = error
       ELSE UNCHANGED <<stage, error, loaderVars>>
    /\ UNCHANGED <<zip, rewrite, shimVars, resolveVars, storeVars, loadListener>>

\* The load event of script element i (line 423), with the reactions of
\* loadDependencies and initH5P that it settles.
ScriptLoad(i) ==
    /\ i \in 1..Len(document)
    /\ document[i].tag = "script"
    /\ document[i].state = "loading"
    /\ LET doc == [document EXCEPT ![i].state = "loaded"]
       IN  IF stage = "scripts" /\ document[i].tier = jsTier /\ TierLoaded(doc, jsTier)
           THEN LET r == LoadScripts(doc, ValueOf(jsDependencies), jsTier + 1)
                IN  /\ document' = r.document
                    /\ jsTier' = r.tier
                    /\ IF r.tier > Len(ValueOf(jsDependencies))
                       THEN stage' = "initialized" /\ h5pInitCalls' = h5pInitCalls + 1
                       ELSE UNCHANGED <<stage, h5pInitCalls>>
           ELSE /\ document' = doc
                /\ UNCHANGED <<stage, jsTier, h5pInitCalls>>
    /\ UNCHANGED <<zip, rewrite, shimVars, error, resolveVars, storeVars, frameVars, shimmed>>

\* A script's error event settling its promise as the load event does.
ScriptError_AsLoad(i) ==
    /\ i \in 1..Len(document)
    /\ document[i].tag = "script"
    /\ document[i].state = "loading"
    /\ LET doc == [document EXCEPT ![i].state = "failed"]
           done == \A k \in 1..Len(doc) :
                       doc[k].tag = "script" /\ doc[k].tier = jsTier => doc[k].state # "loading"
       IN  IF stage = "scripts" /\ document[i].tier = jsTier /\ done
           THEN LET r == LoadScripts(doc, ValueOf(jsDependencies), jsTier + 1)
                IN  /\ document' = r.document
                    /\ jsTier' = r.tier
                    /\ IF r.tier > Len(ValueOf(jsDependencies))
                       THEN stage' = "initialized" /\ h5pInitCalls' = h5pInitCalls + 1
                       ELSE UNCHANGED <<stage, h5pInitCalls>>
           ELSE /\ document' = doc
                /\ UNCHANGED <<stage, jsTier, h5pInitCalls>>
    /\ UNCHANGED <<zip, rewrite, shimVars, error, resolveVars, storeVars, frameVars, shimmed>>

\* The error event of script element i (line 424): the promise of
\* scriptLoader rejects, and with it the chain of loadDependencies.
ScriptError(i) ==
    /\ i \in 1..Len(document)
    /\ document[i].tag = "script"
    /\ document[i].state = "loading"
    /\ document' = [document EXCEPT ![i].state = "failed"]
    /\ IF stage = "scripts"
       THEN stage' = "rejected" /\ error' = "ScriptLoadFailure"
       ELSE UNCHANGED <<stage, error>>
    /\ UNCHANGED <<zip, rewrite, shimVars, resolveVars, storeVars, frameVars, shimmed, jsTier, h5pInitCalls>>

Next ==
    \/ InitRunner
    \/ ZipLoaded
    \/ \E c \in 1..Len(calls) : ReadDescriptor(c)
    \/ SetDependencies
    \/ \E r \in reads : ReadEntry(r)
    \/ ProcessDependencies
    \/ IframeLoad
    \/ \E i \in 1..Len(document) : ScriptLoad(i)
    \/ \E i \in 1..Len(document) : ScriptError(i)

Spec == Init /\ [][Next]_vars

ReadSomeDescriptor == \E c \in 1..Len(calls) : ReadDescriptor(c)

\* Some descriptor read is under way: the condition under which
\* ReadSomeDescriptor can take a step.
ReadPending == \E c \in 1..Len(calls) : calls[c].state = "reading"

\* The archive is in memory once JSZip has loaded it, so every descriptor
\* read that was started completes: weak fairness of ReadSomeDescriptor,
\* written out with its enabling condition.  Nothing is assumed of the page
\* that calls init, of the request for the archive, or of the iframe's load,
\* script load and script error events.
FairSpec ==
    /\ Spec
    /\ ([]<>~ReadPending \/ []<><<ReadSomeDescriptor>>_calls)


(***************************************************************************)
(* replacePaths called on its own, as its export allows: a stylesheet of   *)
(* a package and the package's entry of this.packageFiles.                 *)
(***************************************************************************)
\* The most url() references of a stylesheet.
MaxReferences == 2

StylesheetNames == {<<"s.css">>, <<"css/", "s.css">>}

Apostrophe == <<"'">>

\* What is written between "url(" and ")": [open, path, close].
Reference(open, path, close) == [open |-> open, path |-> path, close |-> close]

ReferencePaths ==
    { <<"a.png">>, <<"img/", "a.png">>, <<"../", "a.png">>, <<"./", "img/", "a.png">>,
      <<"a b.png">>, <<"a.png", "?v=1">>, <<"e.css">>, <<Slash, "a.png">>,
      <<"http://c.c/", "a.png">>, <<InvalidUrl>>, <<"constructor">> }

References ==
    {Reference(Apostrophe, path, Apostrophe) : path \in ReferencePaths}
        \cup { Reference(<<>>, <<"img/", "a.png">>, <<>>),
               Reference(<<"\"">>, <<"img/", "a.png">>, <<"\"">>),
               Reference(<<>>, <<>>, <<>>) }

RenderReference(ref) == <<UrlOpen>> \o ref.open \o ref.path \o ref.close \o <<CloseParen>>

RECURSIVE RenderDeclarations(_, _)
RenderDeclarations(refs, i) ==
    IF i > Len(refs) THEN <<"}">>
    ELSE (IF i = 1 THEN <<>> ELSE <<";">>) \o RenderReference(refs[i])
            \o RenderDeclarations(refs, i + 1)

\* a{url('a.png');url(img/a.png)}
StylesheetText(refs) == <<"a{">> \o RenderDeclarations(refs, 1)

ReferenceLists == UNION {[1..n -> References] : n \in 1..MaxReferences}

\* The files a package may hold next to a stylesheet, named from the
\* stylesheet's directory.
ResourceNames == {<<"a.png">>, <<"img/", "a.png">>, <<"a b.png">>}

EmptyText == <<>>

RECURSIVE MapSetAll(_, _, _)
\* obj[prefix + name] = the blob URL of that file, for every name
MapSetAll(obj, prefix, names) ==
    IF names = {} THEN obj
    ELSE LET name == CHOOSE n \in names : TRUE
         IN  MapSetAll(MapSet(obj, prefix \o name, BlobUrl(PackagePathOf(A), prefix \o name)),
                       prefix, names \ {name})

\* this.packageFiles[packagePath] once processFiles is done: the stylesheet's
\* text, blob URLs for the files next to it and for a.png at the root of the
\* package, the text of another stylesheet e.css.
PackageFilesOf(dep, text, names, atRoot, other) ==
    LET here == MapSetAll(MapSet(EmptyMap, dep, text), DirectoryOf(dep), names)
        root == IF atRoot THEN MapSetAll(here, <<>>, {<<"a.png">>}) ELSE here
    IN  IF other.present THEN MapSet(root, DirectoryOf(dep) \o <<"e.css">>, other.text)
        ELSE root

RewriteInputs ==
    {[dep |-> dep, references |-> refs,
      packageFiles |-> PackageFilesOf(dep, StylesheetText(refs), names, atRoot, other)] :
        dep \in StylesheetNames, refs \in ReferenceLists, names \in SUBSET ResourceNames,
        atRoot \in BOOLEAN,
        other \in {[present |-> FALSE, text |-> EmptyText],
                   [present |-> TRUE, text |-> EmptyText],
                   [present |-> TRUE, text |-> <<"e{", "}">>]}}

InitRewrite ==
    /\ zip = <<>>
    /\ NewRunner
    /\ Unshimmed
    /\ \E input \in RewriteInputs :
          rewrite = [dep |-> input.dep, references |-> input.references,
                     packageFiles |-> input.packageFiles,
                     returned |-> FALSE, thrown |-> FALSE, css |-> EmptyText]

\* replacePaths(dep, packageFiles) is called and returns.
ReplacePaths ==
    /\ ~rewrite.returned
    /\ LET r == replacePaths(rewrite.dep, rewrite.packageFiles)
       IN  rewrite' = [rewrite EXCEPT !.returned = TRUE, !.thrown = r.thrown, !.css = r.css]
    /\ UNCHANGED <<zip, stage, error, resolveVars, storeVars, frameVars, loaderVars, shimVars>>

NextRewrite == ReplacePaths

SpecRewrite == InitRewrite /\ [][NextRewrite]_vars


(***************************************************************************)
(* The xAPI listener of shimH5P on its own: the runner has been shimmed,   *)
(* H5P triggers xAPI events and time passes.  Times are in seconds.        *)
(***************************************************************************)
MaxEvents == 3

MaxTime == 7

\* Verbs that are not reported, lines 15-21.
doNotLogVerbs ==
    <<"downloaded", "copied", "accessed-reuse", "accessed-embed", "accessed-copyright">>

\* Verbs whose reports are debounced, line 29.
debounceVerbs == <<"answered", "interacted">>

debounceDelay == 5

maxDelay == 30

\* XAPIVerbMap of ../xAPI/xAPIVocabulary: the id of a verb.
XAPIVerbMap(verb) == <<"http://adlnet.gov/expapi/verbs/", verb>>

doNotLogVerbMap_Empty == EmptyMap

\* for (...) doNotLogVerbMap[XAPIVerbMap[doNotLogVerbs[i]]] = true, lines 23-26
doNotLogVerbMap ==
    [id \in {XAPIVerbMap(doNotLogVerbs[i]) : i \in DOMAIN doNotLogVerbs} |-> TRUE]

\* The verbs of the events H5P triggers here: the debounced ones, the first
\* and the last of those not reported, and one that is neither.
EventVerbs ==
    Range(debounceVerbs) \cup {doNotLogVerbs[1], doNotLogVerbs[Len(doNotLogVerbs)], "completed"}

\* event.data.statement of the n-th event
Statement(n, verb) == [id |-> n, verb |-> [id |-> XAPIVerbMap(verb)]]

\* lodash's debounce(func, wait, {leading: true, maxWait}): the variables of
\* its closure before the first call.  Trailing is lodash's default.
NewDebounced ==
    [lastArgs |-> Null, lastCallTime |-> Null, lastInvokeTime |-> 0, timerId |-> Null]

\* A step of the debounced function: the closure after it and the calls of
\* func it has made.
Debounced(d, invoked) == [closure |-> d, invoked |-> invoked]

shouldInvoke_Always(d, time) == TRUE

shouldInvoke(d, time) ==
    \/ d.lastCallTime = Null
    \/ time >= d.lastCallTime[1] + debounceDelay
    \/ time < d.lastCallTime[1]
    \/ time >= d.lastInvokeTime + maxDelay

\* time + remainingWait(time): when the timer is due
TimerDue(d) ==
    IF d.lastCallTime[1] + debounceDelay <= d.lastInvokeTime + maxDelay
    THEN d.lastCallTime[1] + debounceDelay
    ELSE d.lastInvokeTime + maxDelay

invokeFunc(d, time) ==
    Debounced([d EXCEPT !.lastArgs = Null, !.lastInvokeTime = time], d.lastArgs)

leadingEdge(d, time) ==
    invokeFunc([d EXCEPT !.lastInvokeTime = time, !.timerId = <<time + debounceDelay>>],
               time)

trailingEdge(d, time) ==
    IF d.lastArgs # Null THEN invokeFunc([d EXCEPT !.timerId = Null], time)
    ELSE Debounced([d EXCEPT !.timerId = Null], <<>>)

timerExpired(d, time) ==
    IF shouldInvoke(d, time) THEN trailingEdge(d, time)
    ELSE Debounced([d EXCEPT !.timerId = <<TimerDue(d)>>], <<>>)

\* debouncedHandlers[verb](statement)
debounced(d, time, statement) ==
    LET called == [d EXCEPT !.lastArgs = <<statement>>, !.lastCallTime = <<time>>]
    IN  IF shouldInvoke(d, time)
        THEN IF d.timerId = Null THEN leadingEdge(called, time)
             ELSE invokeFunc([called EXCEPT !.timerId = <<time + debounceDelay>>], time)
        ELSE Debounced(called, <<>>)

\* contentWindow.xAPI.sendStatement(statement, true) at the given time
SendStatement(sent, statements, time) ==
    sent \o [i \in DOMAIN statements |-> [statement |-> statements[i], time |-> time]]

\* The listener of lines 329-342 for one event: the handlers and the
\* statements sent after it.
XapiListener(present, handlers, sent, statement, time) ==
    IF ~present THEN [handlers |-> handlers, sent |-> sent]
    ELSE IF statement.verb.id \in DOMAIN doNotLogVerbMap
    THEN [handlers |-> handlers, sent |-> sent]
    ELSE IF statement.verb.id \in DOMAIN handlers
    THEN LET step == debounced(handlers[statement.verb.id], time, statement)
         IN  [handlers |-> [handlers EXCEPT ![statement.verb.id] = step.closure],
              sent |-> SendStatement(sent, step.invoked, time)]
    ELSE [handlers |-> handlers, sent |-> SendStatement(sent, <<statement>>, time)]

\* shimH5P has run, lines 313-342: one debounced handler for each debounced
\* verb and the listener.
InitXapi ==
    /\ zip = <<>>
    /\ rewrite = Null
    /\ NewRunner
    /\ clock = 0
    /\ xAPI \in BOOLEAN
    /\ debouncedHandlers =
          [id \in {XAPIVerbMap(debounceVerbs[i]) : i \in DOMAIN debounceVerbs} |->
              NewDebounced]
    /\ events = <<>>
    /\ sendStatements = <<>>
    /\ handed = <<>>
    /\ data = EmptyMap
    /\ userCalls = 0
    /\ lastCall = <<>>
    /\ stateUpdates = 0
    /\ errorCallbacks = 0
    /\ doneData = <<>>

runnerVars == <<zip, stage, error, resolveVars, storeVars, frameVars, loaderVars, rewrite>>

\* H5P.externalDispatcher triggers an xAPI event.
TriggerXapi(verb) ==
    /\ Len(events) < MaxEvents
    /\ LET statement == Statement(Len(events) + 1, verb)
           after == XapiListener(xAPI, debouncedHandlers, sendStatements, statement, clock)
       IN  /\ events' = Append(events, [statement |-> statement, time |-> clock])
           /\ debouncedHandlers' = after.handlers
           /\ sendStatements' = after.sent
    /\ UNCHANGED <<runnerVars, userVars, clock, xAPI, handed>>

TimerPending(id) ==
    /\ debouncedHandlers[id].timerId # Null
    /\ debouncedHandlers[id].timerId[1] <= clock

\* The timer of a debounced handler fires.
TimerExpired(id) ==
    /\ TimerPending(id)
    /\ LET step == timerExpired(debouncedHandlers[id], clock)
       IN  /\ debouncedHandlers' = [debouncedHandlers EXCEPT ![id] = step.closure]
           /\ sendStatements' = SendStatement(sendStatements, step.invoked, clock)
    /\ UNCHANGED <<runnerVars, userVars, clock, xAPI, events, handed>>

\* A second passes; the timers that were due have fired.
Tick ==
    /\ clock < MaxTime
    /\ \A id \in DOMAIN debouncedHandlers : ~TimerPending(id)
    /\ clock' = clock + 1
    /\ UNCHANGED <<runnerVars, userVars, xAPI, debouncedHandlers, events, sendStatements, handed>>

NextXapi ==
    \/ \E verb \in EventVerbs : TriggerXapi(verb)
    \/ \E id \in DOMAIN debouncedHandlers : TimerExpired(id)
    \/ Tick

SpecXapi == InitXapi /\ [][NextXapi]_vars

(***************************************************************************)
(* The lookups H5P makes through the overrides of shimH5P once H5P.init    *)
(* has been called.                                                        *)
(***************************************************************************)
TmpSuffix == "#tmp"

\* H5P's own getPath, kept as originalGetPath at line 244: a path under the
\* content URL of the page.
originalGetPath(path) == <<"originalGetPath:">> \o path

\* H5P.getPath = function(path, contentId), lines 245-256
getPath(paths, path) ==
    LET stripped == IF Len(path) > 0 /\ path[Len(path)] = TmpSuffix
                    THEN SubSeq(path, 1, Len(path) - 1) ELSE path
    IN  IF Truthy(MapGet(paths, stripped)) THEN MapGet(paths, stripped)
        ELSE originalGetPath(stripped)

\* ct.prototype.getLibraryFilePath = function(filePath), lines 301-303, for
\* the library whose versionedNameNoSpaces + '/' is packagePath
getLibraryFilePath(files, packagePath, filePath) ==
    IF packagePath \in DOMAIN files
    THEN [thrown |-> FALSE, value |-> MapGet(files[packagePath], filePath)]
    ELSE [thrown |-> TRUE, value |-> Undefined]

\* The paths H5P asks for: content files as content.json names them, and
\* files of a library.
ContentLookups ==
    {<<"images/", "c.png">>, <<"images/", "c.png", TmpSuffix>>, <<"images/", "d.png">>}

LibraryLookups == {AJs, ACss, BCss, <<"img/", "a.png">>}

GetPath(path) ==
    /\ stage = "initialized"
    /\ handed' = <<[by |-> "getPath", thrown |-> FALSE, value |-> getPath(contentPaths, path)]>>
    /\ UNCHANGED <<runnerVars, userVars, clock, xAPI, debouncedHandlers, events, sendStatements>>

GetLibraryFilePath(packagePath, filePath) ==
    /\ stage = "initialized"
    /\ LET r == getLibraryFilePath(packageFiles, packagePath, filePath)
       IN  handed' = <<[by |-> "getLibraryFilePath", thrown |-> r.thrown, value |-> r.value]>>
    /\ UNCHANGED <<runnerVars, userVars, clock, xAPI, debouncedHandlers, events, sendStatements>>

NextRuntime ==
    \/ Next
    \/ \E path \in ContentLookups : GetPath(path)
    \/ \E packagePath \in Range(sortedDependencies), filePath \in LibraryLookups :
          GetLibraryFilePath(packagePath, filePath)

SpecRuntime == Init /\ [][NextRuntime]_vars

----------------------------------------------------------------------------
\* The user-data overrides of shimH5P: H5P.getUserData, H5P.setUserData and
\* H5P.deleteUserData read and write this.data, the object the shim handed
\* to the constructor, under the path [subContentId, dataId].

\* How many user-data calls a behaviour holds.
MaxCalls == 3

\* JSON.stringify(value), as [thrown, text]: a string is printed in double
\* quotes, undefined gives undefined, and a value that refers to itself
\* throws a TypeError.
JSONStringify_NeverThrows(value) ==
    [thrown |-> FALSE,
     text |-> IF value = Undefined THEN Undefined ELSE <<"\"">> \o value \o <<"\"">>]

JSONStringify(value) ==
    IF value = <<"circular">> THEN [thrown |-> TRUE, text |-> Undefined]
    ELSE IF value = Undefined THEN [thrown |-> FALSE, text |-> Undefined]
    ELSE [thrown |-> FALSE, text |-> <<"\"">> \o value \o <<"\"">>]

\* lodash get(object, [subContentId, dataId]): undefined where either key
\* is missing.
get(object, subContentId, dataId) ==
    IF subContentId \in DOMAIN object /\ dataId \in DOMAIN object[subContentId]
    THEN object[subContentId][dataId]
    ELSE Undefined

\* lodash set(object, [subContentId, dataId], value): creates the inner
\* object where there is none.
set(object, subContentId, dataId, value) ==
    MapSet(object, subContentId,
           MapSet(IF subContentId \in DOMAIN object THEN object[subContentId] ELSE EmptyMap,
                  dataId, value))

\* lodash unset(object, [subContentId, dataId]): removes the inner key and
\* keeps the inner object.
unset(object, subContentId, dataId) ==
    IF subContentId \in DOMAIN object
    THEN MapSet(object, subContentId,
                [k \in DOMAIN object[subContentId] \ {dataId} |-> object[subContentId][k]])
    ELSE object

\* The runner is constructed with the data of the shim, and H5P is shimmed.
InitUserData ==
    /\ zip = <<>>
    /\ NewRunner
    /\ rewrite = Null
    /\ clock = 0
    /\ xAPI = TRUE
    /\ debouncedHandlers = EmptyMap
    /\ events = <<>>
    /\ sendStatements = <<>>
    /\ handed = <<>>
    /\ data \in {EmptyMap,
                 [s \in {"0"} |-> [d \in {"state"} |-> <<"RESET">>]],
                 [s \in {"0", "7"} |->
                     IF s = "0" THEN [d \in {"state", "other"} |-> <<"\"", "kept", "\"">>]
                     ELSE [d \in {"state"} |-> <<"RESET">>]]}
    /\ userCalls = 0
    /\ lastCall = <<>>
    /\ stateUpdates = 0
    /\ errorCallbacks = 0
    /\ doneData = <<>>

\* H5P.getUserData(contentId, dataId, done, subContentId).
GetUserData(dataId, subContentId) ==
    /\ userCalls < MaxCalls
    /\ userCalls' = userCalls + 1
    /\ lastCall' = <<[fn |-> "getUserData", subContentId |-> subContentId,
                      dataId |-> dataId, data |-> Undefined, errorCallback |-> "null"]>>
    /\ LET stored == get(data, subContentId, dataId)
       IN  doneData' = IF stored = <<"RESET">> THEN <<Null>> ELSE <<stored>>
    /\ UNCHANGED <<runnerVars, clock, xAPI, debouncedHandlers, events, sendStatements,
                   handed, data, stateUpdates, errorCallbacks>>

\* H5P.setUserData(contentId, dataId, data, { subContentId, errorCallback }).
SetUserData(dataId, value, subContentId, errorCallback) ==
    /\ userCalls < MaxCalls
    /\ userCalls' = userCalls + 1
    /\ lastCall' = <<[fn |-> "setUserData", subContentId |-> subContentId,
                      dataId |-> dataId, data |-> value, errorCallback |-> errorCallback]>>
    /\ LET json == JSONStringify(value)
       IN  IF json.thrown
           THEN /\ errorCallbacks' = IF errorCallback = "function"
                                     THEN errorCallbacks + 1 ELSE errorCallbacks
                /\ UNCHANGED <<data, stateUpdates>>
           ELSE /\ data' = set(data, subContentId, dataId, json.text)
                /\ stateUpdates' = stateUpdates + 1
                /\ UNCHANGED errorCallbacks
    /\ UNCHANGED <<runnerVars, clock, xAPI, debouncedHandlers, events, sendStatements,
                   handed, doneData>>

\* H5P.deleteUserData(contentId, dataId, subContentId).
DeleteUserData(dataId, subContentId) ==
    /\ userCalls < MaxCalls
    /\ userCalls' = userCalls + 1
    /\ lastCall' = <<[fn |-> "deleteUserData", subContentId |-> subContentId,
                      dataId |-> dataId, data |-> Undefined, errorCallback |-> "null"]>>
    /\ data' = unset(data, subContentId, dataId)
    /\ stateUpdates' = stateUpdates + 1
    /\ UNCHANGED <<runnerVars, clock, xAPI, debouncedHandlers, events, sendStatements,
                   handed, errorCallbacks, doneData>>

NextUserData ==
    \E dataId \in {"state", "other"}, subContentId \in {"0", "7"} :
        \/ GetUserData(dataId, subContentId)
        \/ \E value \in {<<"answer">>, <<"circular">>, Undefined},
              errorCallback \in {"function", "null"} :
                SetUserData(dataId, value, subContentId, errorCallback)
        \/ DeleteUserData(dataId, subContentId)

SpecUserData == InitUserData /\ [][NextUserData]_vars
(***************************************************************************)
(* Properties of dependency resolution and of the load order.              *)
(***************************************************************************)
\* The library.json entries of an archive.
LibraryEntries(z) ==
    {i \in 1..Len(z) : Len(z[i].name) >= 2 /\ z[i].name[Len(z[i].name)] = "library.json"}

\* The dependencies the descriptors of an archive declare: <<P, Q>> for
\* "package P depends on package Q".
DeclaredEdges(z) ==
    UNION {{<<SubSeq(z[i].name, 1, Len(z[i].name) - 1), PackagePathOf(dep)>> :
               dep \in Range(z[i].content.preloadedDependencies)} : i \in LibraryEntries(z)}

RECURSIVE TransitiveClosure(_)
TransitiveClosure(R) ==
    LET more == R \cup {<<e[1], f[2]>> : <<e, f>> \in {x \in R \X R : x[1][2] = x[2][1]}}
    IN  IF more = R THEN R ELSE TransitiveClosure(more)

DeclaredAcyclic(z) == \A e \in TransitiveClosure(DeclaredEdges(z)) : e[1] # e[2]

\* The dependencies recorded in this.dependencies: <<P, Q>>.
RecordedEdges ==
    UNION {{<<dependencies[i].packagePath, q>> : q \in Range(dependencies[i].dependencies)} :
              i \in 1..Len(dependencies)}

RecordedPackages == {dependencies[i].packagePath : i \in 1..Len(dependencies)}

RootResolved == Len(calls) > 0 /\ calls[1].state = "resolved"

\* setDependencies has been called (the callback of line 167 has run).
SetDependenciesRan ==
    \/ stage \in {"processing", "ready", "scripts", "initialized"}
    \/ stage = "rejected" /\ error # "EntryNotFound"

Occurrences(s, x) == Cardinality({i \in 1..Len(s) : s[i] = x})

\* C1: in an archive whose declared dependencies have no cycle, once
\* recurseDependencies and setDependencies have run, every recorded
\* dependency "P depends on Q" has Q before P in sortedDependencies,
\* whatever order the descriptor reads completed in.
C1_DependenciesFirst ==
    DeclaredAcyclic(zip) /\ SetDependenciesRan =>
        \A e \in RecordedEdges :
            /\ IndexOf(sortedDependencies, e[1]) > 0
            /\ IndexOf(sortedDependencies, e[2]) > 0
            /\ IndexOf(sortedDependencies, e[2]) < IndexOf(sortedDependencies, e[1])

\* A -> {B, C}, B -> D, C -> D
DiamondZip == GraphZip({<<1, 2>>, <<1, 3>>, <<2, 4>>, <<3, 4>>}, {})

\* A -> B -> A
CycleZip == GraphZip({<<1, 2>>, <<2, 1>>}, {})

\* C1 witness: the diamond has been sorted, all four packages in the order.
C1_Witness ==
    /\ zip = DiamondZip
    /\ SetDependenciesRan
    /\ Cardinality(RecordedEdges) = 4
    /\ Len(sortedDependencies) = 4

\* The call of a record: a resolved invocation of the record's package.
CutEdges ==
    UNION {{<<calls[c].packagePath, calls[c].results[i].packagePath>> :
               i \in {k \in 1..Len(calls[c].results) : calls[c].results[k].call = 0}} :
              c \in {k \in 1..Len(calls) : calls[k].state = "resolved"}}

\* C3: a declared dependency that is cut as a cycle (its target is already
\* in the visited set) is absent from the recorded graph: for A -> B -> A
\* both A and B are recorded and the dependencies recorded for B do not
\* contain A.
C3_BackEdgeAbsent ==
    RootResolved =>
        /\ \A e \in CutEdges : e[1] # NoPackage => e \notin RecordedEdges
        /\ zip = CycleZip =>
              /\ RecordedPackages = {PackagePathOf(A), PackagePathOf(B)}
              /\ <<PackagePathOf(B), PackagePathOf(A)>> \notin RecordedEdges

\* The order holds every recorded package exactly once and nothing else.
OrderOfRecordedPackages ==
    /\ Range(sortedDependencies) = RecordedPackages
    /\ \A p \in RecordedPackages : Occurrences(sortedDependencies, p) = 1

\* C4: a cycle in the declared dependencies is not fatal: setDependencies
\* does not fail but produces an order holding every recorded package
\* exactly once, and the pipeline goes on to processFiles and the loader.
C4_CycleNotFatal ==
    ~DeclaredAcyclic(zip) /\ RootResolved /\ stage # "resolving" =>
        /\ error # "CyclicDependency"
        /\ OrderOfRecordedPackages

\* C5: for the diamond A -> {B, C}, B -> D, C -> D, resolution appends two
\* records for D, while sortedDependencies holds D once, before B and C.
C5_Diamond ==
    zip = DiamondZip =>
        /\ RootResolved =>
              Cardinality({i \in 1..Len(dependencies) :
                              dependencies[i].packagePath = PackagePathOf(D)}) = 2
        /\ SetDependenciesRan =>
              /\ Occurrences(sortedDependencies, PackagePathOf(D)) = 1
              /\ IndexOf(sortedDependencies, PackagePathOf(D))
                    < IndexOf(sortedDependencies, PackagePathOf(B))
              /\ IndexOf(sortedDependencies, PackagePathOf(D))
                    < IndexOf(sortedDependencies, PackagePathOf(C))

\* C5 witness: the diamond sorted, D recorded twice.
C5_Witness ==
    /\ zip = DiamondZip
    /\ SetDependenciesRan
    /\ Len(dependencies) = 5
    /\ Occurrences(sortedDependencies, PackagePathOf(D)) = 1

\* The library.json of every declared dependency is in the archive.
EveryDescriptorPresent(z) ==
    /\ ZipFile(z, H5pJson) # 0
    /\ \A dep \in Range(z[ZipFile(z, H5pJson)].content.preloadedDependencies) :
          ZipFile(z, LibraryJson(PackagePathOf(dep))) # 0
    /\ \A e \in DeclaredEdges(z) : ZipFile(z, LibraryJson(e[2])) # 0

RECURSIVE Ancestors(_, _)
\* The invocations on the branch above invocation c.
Ancestors(cs, c) ==
    IF cs[c].parent = 0 THEN {} ELSE {cs[c].parent} \cup Ancestors(cs, cs[c].parent)

NoPackageTwiceOnBranch ==
    \A c \in 1..Len(calls) :
        \A a \in Ancestors(calls, c) : calls[a].packagePath # calls[c].packagePath

\* C2: whatever the packages declare (the cycle A -> B -> A and
\* self-dependencies included), when every descriptor read completes the
\* root call of recurseDependencies eventually resolves, and no package is
\* recursed into twice along a branch.
C2_RootResolves ==
    /\ []NoPackageTwiceOnBranch
    /\ (stage = "resolving" /\ EveryDescriptorPresent(zip)) ~> RootResolved

\* C2 witness: the root call has resolved for A -> B -> A, with the edge
\* back to A cut.
C2_Witness ==
    /\ zip = CycleZip
    /\ RootResolved
    /\ <<PackagePathOf(B), PackagePathOf(A)>> \in CutEdges

\* Some descriptor that resolution reaches declares a dependency whose
\* library.json is not in the archive.
AbsentDescriptorDeclared(z) ==
    /\ ZipFile(z, H5pJson) # 0
    /\ ~EveryDescriptorPresent(z)

NothingLoaded ==
    /\ sortedDependencies = Null
    /\ packageFiles = EmptyMap
    /\ cssDependencies = Object(EmptyMap) /\ jsDependencies = Object(EmptyMap)
    /\ reads = {} /\ loadedJs = {} /\ loadedCss = {}
    /\ contentPaths = EmptyMap
    /\ document = <<>>
    /\ ~shimmed
    /\ h5pInitCalls = 0

ScriptsOf(doc, tier) == {i \in 1..Len(doc) : doc[i].tag = "script" /\ doc[i].tier = tier}

LinksOf(doc) == {i \in 1..Len(doc) : doc[i].tag = "link"}

RECURSIVE FilesIn(_, _)
FilesIn(plan, tier) ==
    IF tier = 0 THEN 0 ELSE Len(plan[tier].fileMap) + FilesIn(plan, tier - 1)

\* this.jsDependencies and this.cssDependencies hold the load plans.
PlansMade == cssDependencies[1] = "array" /\ jsDependencies[1] = "array"

\* C7: no script of tier i+1 is in the document until every script of tier
\* i has delivered its load event, and the scripts of a tier are injected
\* together, before any load event of the tier is waited for.
C7_ScriptTiersInOrder ==
    \A i \in 1..Len(document) :
        document[i].tag = "script" =>
            /\ PlansMade
            /\ Cardinality(ScriptsOf(document, document[i].tier))
                  = Len(ValueOf(jsDependencies)[document[i].tier].fileMap)
            /\ \A t \in 1..(document[i].tier - 1) :
                  /\ Cardinality(ScriptsOf(document, t)) = Len(ValueOf(jsDependencies)[t].fileMap)
                  /\ \A k \in ScriptsOf(document, t) : document[k].state = "loaded"

\* C7 witness: a second script tier is in the document after the two
\* scripts of the first tier were injected together and both loaded.
C7_Witness ==
    /\ Cardinality(ScriptsOf(document, 1)) = 2
    /\ \A k \in ScriptsOf(document, 1) : document[k].state = "loaded"
    /\ \E k \in ScriptsOf(document, 2) : document[k].state = "loading"

\* C8: every stylesheet link of every style tier is in the document before
\* the first script element of any script tier.
C8_StylesBeforeScripts ==
    /\ \A i, k \in 1..Len(document) :
          document[i].tag = "link" /\ document[k].tag = "script" => i < k
    /\ (\E k \in 1..Len(document) : document[k].tag = "script") =>
          /\ PlansMade
          /\ Cardinality(LinksOf(document))
                = FilesIn(ValueOf(cssDependencies), Len(ValueOf(cssDependencies)))

\* C8 witness: the links of two style tiers are in the document, and after
\* them the first script tier.
C8_Witness ==
    /\ \E i, k \in LinksOf(document) : document[i].tier = 1 /\ document[k].tier = 2
    /\ ScriptsOf(document, 1) # {}
    /\ \A k \in ScriptsOf(document, 1) : document[k].state = "loading"

\* C9: when a script of tier i delivers an error event, the promise of
\* loadDependencies rejects, no script of a later tier is ever injected and
\* H5P.init is never called, while the scripts of the tiers before i stay
\* executed.
C9_ScriptErrorFatal ==
    \A i \in 1..Len(document) :
        document[i].state = "failed" =>
            /\ stage = "rejected" /\ error = "ScriptLoadFailure"
            /\ h5pInitCalls = 0
            /\ \A k \in 1..Len(document) :
                  document[k].tag = "script" =>
                      /\ document[k].tier <= document[i].tier
                      /\ document[k].tier < document[i].tier => document[k].state = "loaded"

\* C9 witness: a script of the second tier has failed, after both scripts of
\* the first tier had loaded.
C9_Witness ==
    /\ \E k \in ScriptsOf(document, 2) : document[k].state = "failed"
    /\ Cardinality(ScriptsOf(document, 1)) = 2
    /\ \A k \in ScriptsOf(document, 1) : document[k].state = "loaded"
    /\ stage = "rejected"

\* A reference that is a relative path and nothing else: directories, "./",
\* "../" and a file name.
PlainRelative(path) ==
    /\ path # <<>>
    /\ \A i \in 1..Len(path) :
          path[i] \notin Queries \cup Authorities \cup {Slash, InvalidUrl}

RECURSIVE JoinPath(_, _, _)
\* The path a relative reference names, joined to the directory dirs of the
\* stylesheet: [inside, path], inside FALSE when it leaves the package.
JoinPath(ref, i, dirs) ==
    IF i > Len(ref) THEN [inside |-> TRUE, path |-> dirs]
    ELSE IF ref[i] = Dot THEN JoinPath(ref, i + 1, dirs)
    ELSE IF ref[i] = DotDot
    THEN IF Len(dirs) = 0 THEN [inside |-> FALSE, path |-> dirs]
         ELSE JoinPath(ref, i + 1, SubSeq(dirs, 1, Len(dirs) - 1))
    ELSE JoinPath(ref, i + 1, Append(dirs, ref[i]))

\* The reference names an entry of the resource map.
HasEntry(dep, files, ref) ==
    /\ PlainRelative(ref.path)
    /\ JoinPath(ref.path, 1, DirectoryOf(dep)).inside
    /\ JoinPath(ref.path, 1, DirectoryOf(dep)).path \in DOMAIN files

EntryOf(dep, files, ref) == files[JoinPath(ref.path, 1, DirectoryOf(dep)).path]

WithPath(ref, path) == RenderReference([ref EXCEPT !.path = path])

\* What a reference may have become: the entry in place of the path when
\* the reference names one, anything between the same "url(", quotes and
\* ")" when it names none.
ReferenceOutcomes(dep, files, ref) ==
    IF HasEntry(dep, files, ref) THEN {WithPath(ref, EntryOf(dep, files, ref))}
    ELSE {RenderReference(ref), WithPath(ref, NativeFunction)}
            \cup {WithPath(ref, files[k]) : k \in DOMAIN files}

RECURSIVE DeclarationOutcomes(_, _, _, _)
DeclarationOutcomes(dep, files, refs, i) ==
    IF i > Len(refs) THEN {<<"}">>}
    ELSE {(IF i = 1 THEN <<>> ELSE <<";">>) \o x[1] \o x[2] :
             x \in ReferenceOutcomes(dep, files, refs[i])
                      \X DeclarationOutcomes(dep, files, refs, i + 1)}

StylesheetOutcomes(dep, files, refs) ==
    {<<"a{">> \o rest : rest \in DeclarationOutcomes(dep, files, refs, 1)}

\* C10: replacePaths resolves every url(...) reference against the path of
\* the stylesheet in its package and, when the package's resource map has an
\* entry for the resolved path, puts that entry in place of the referenced
\* path, leaving "url(", the quotes and ")" as they were.
C10_EntryReplacesPath ==
    rewrite.returned =>
        /\ ~rewrite.thrown
        /\ rewrite.css \in StylesheetOutcomes(rewrite.dep, rewrite.packageFiles,
                                              rewrite.references)

\* C10: url('a b.png') has been left as it was although the resource map
\* has an entry for a b.png next to the stylesheet.
C10_Witness ==
    /\ rewrite.returned
    /\ rewrite.dep = <<"s.css">>
    /\ rewrite.references = <<Reference(Apostrophe, <<"a b.png">>, Apostrophe)>>
    /\ <<"a b.png">> \in DOMAIN rewrite.packageFiles
    /\ rewrite.css = StylesheetText(rewrite.references)


\* ---------------------------------------------------------------------------
\* References without an entry
\* ---------------------------------------------------------------------------

\* The path of a reference as line 72 resolves it against the stylesheet.
ResolvedPath(dep, ref) ==
    UrlPathname(IF ref.path = <<>> THEN Undefined ELSE ref.path, dep)

\* The resolution throws, or the resource map has no entry at the resolved path.
NoEntry(dep, files, ref) ==
    \/ ResolvedPath(dep, ref).thrown
    \/ ResolvedPath(dep, ref).path \notin DOMAIN files

\* What a reference may have become when references without an entry stay
\* as they are.
UnchangedOutcomes(dep, files, ref) ==
    IF NoEntry(dep, files, ref) THEN {RenderReference(ref)}
    ELSE {RenderReference(ref)} \cup {WithPath(ref, files[k]) : k \in DOMAIN files}

RECURSIVE UnchangedDeclarations(_, _, _, _)
UnchangedDeclarations(dep, files, refs, i) ==
    IF i > Len(refs) THEN {<<"}">>}
    ELSE {(IF i = 1 THEN <<>> ELSE <<";">>) \o x[1] \o x[2] :
             x \in UnchangedOutcomes(dep, files, refs[i])
                      \X UnchangedDeclarations(dep, files, refs, i + 1)}

\* C11: replacePaths raises no error, and every url(...) reference whose
\* resolution throws or whose resolved path has no entry in the package's
\* resource map is in the result exactly as it was in the input, whatever
\* the other references of the stylesheet are.
C11_NoEntryUnchanged ==
    rewrite.returned =>
        /\ ~rewrite.thrown
        /\ rewrite.css \in {<<"a{">> \o rest :
              rest \in UnchangedDeclarations(rewrite.dep, rewrite.packageFiles,
                                             rewrite.references, 1)}

\* C11: url('constructor') has been rewritten although the resource map has
\* no entry named constructor.
C11_Witness ==
    /\ rewrite.returned
    /\ rewrite.references = <<Reference(Apostrophe, <<"constructor">>, Apostrophe)>>
    /\ NoEntry(rewrite.dep, rewrite.packageFiles, rewrite.references[1])
    /\ rewrite.css # StylesheetText(rewrite.references)

\* ---------------------------------------------------------------------------
\* Reports of xAPI events
\* ---------------------------------------------------------------------------

VerbIdOf(n) == events[n].statement.verb.id

DebouncedIds == {XAPIVerbMap(debounceVerbs[i]) : i \in DOMAIN debounceVerbs}

\* The event opens a burst: every earlier event of its verb is at least
\* debounceDelay seconds back.
BurstStart(n) ==
    \A m \in 1..(n - 1) :
        VerbIdOf(m) = VerbIdOf(n) => events[m].time + debounceDelay <= events[n].time

\* The events of the verb of n from n on, less than debounceDelay seconds
\* after it.
Burst(n) ==
    {m \in n..Len(events) :
        /\ VerbIdOf(m) = VerbIdOf(n)
        /\ events[m].time < events[n].time + debounceDelay}

\* The calls of sendStatement with the statement of one of the events.
SentFor(ns) == {k \in DOMAIN sendStatements : sendStatements[k].statement.id \in ns}

\* One call for the first event at the time of the event, at most one more
\* for the rest of the burst and not before the delay is over.
LeadingAndTrailing(n) ==
    /\ Cardinality(SentFor({n})) = 1
    /\ \A k \in SentFor({n}) : sendStatements[k].time = events[n].time
    /\ Cardinality(SentFor(Burst(n) \ {n})) <= 1
    /\ \A k \in SentFor(Burst(n) \ {n}) :
          sendStatements[k].time >= events[n].time + debounceDelay

\* C12, as amended: while xAPI is there, a burst of events of a debounced
\* verb within one window of debounceDelay seconds causes exactly one
\* sendStatement call at once for its first event and at most one more at
\* the trailing edge, two calls at most.
C12_LeadingAndTrailing ==
    xAPI => \A n \in DOMAIN events :
                VerbIdOf(n) \in DebouncedIds /\ BurstStart(n) => LeadingAndTrailing(n)

\* C12, as stated: in addition a burst of N >= 2 events never causes N
\* calls.
C12_NeverAllEvents ==
    xAPI => \A n \in DOMAIN events :
                VerbIdOf(n) \in DebouncedIds /\ BurstStart(n) =>
                    /\ LeadingAndTrailing(n)
                    /\ Cardinality(Burst(n)) >= 2 =>
                          Cardinality(SentFor(Burst(n))) < Cardinality(Burst(n))

\* C12: three interacted events within two seconds have been reported by
\* two calls, one at the time of the first event and one five seconds after
\* the last.
C12_Witness ==
    /\ xAPI
    /\ Len(events) = 3
    /\ \A n \in DOMAIN events : VerbIdOf(n) = XAPIVerbMap("interacted")
    /\ events[1].time = 0 /\ events[3].time = 2
    /\ Len(sendStatements) = 2
    /\ sendStatements[1] = [statement |-> events[1].statement, time |-> 0]
    /\ sendStatements[2] = [statement |-> events[3].statement, time |-> 7]

\* C13: no call of sendStatement, at the time of an event or later, carries
\* a statement whose verb is one of the verbs not to be reported, however
\* many such events there were.
C13_DenyListNeverSent ==
    \A k \in DOMAIN sendStatements : \A i \in DOMAIN doNotLogVerbs :
        sendStatements[k].statement.verb.id # XAPIVerbMap(doNotLogVerbs[i])

\* C13: two events of verbs not to be reported and a completed event have
\* been triggered with xAPI there; the delay after the last has passed and
\* only the completed event has been reported.
C13_Witness ==
    /\ xAPI
    /\ Len(events) = 3
    /\ VerbIdOf(1) = XAPIVerbMap("downloaded")
    /\ VerbIdOf(2) = XAPIVerbMap("completed")
    /\ VerbIdOf(3) = XAPIVerbMap("downloaded")
    /\ clock >= events[3].time + debounceDelay
    /\ Len(sendStatements) = 1

\* ---------------------------------------------------------------------------
\* Lookups of the content runtime
\* ---------------------------------------------------------------------------

\* C14: whatever the overridden H5P.getPath and getLibraryFilePath return to
\* H5P is an addressable handle held by contentPaths or packageFiles: never
\* an archive path, text, nothing at all or a path made by the original
\* getPath.
C14_OnlyHandles ==
    \A i \in DOMAIN handed :
        /\ ~handed[i].thrown
        /\ IsBlobUrl(handed[i].value)
        /\ \/ \E path \in DOMAIN contentPaths : contentPaths[path] = handed[i].value
           \/ \E packagePath \in DOMAIN packageFiles :
                 \E name \in DOMAIN packageFiles[packagePath] :
                    packageFiles[packagePath][name] = handed[i].value

\* C14: getLibraryFilePath has returned the text of a stylesheet of the
\* archive.
C14_Witness ==
    /\ zip = CourseZip
    /\ \E i \in DOMAIN handed :
          /\ handed[i].by = "getLibraryFilePath"
          /\ ~handed[i].thrown
          /\ handed[i].value # Undefined
          /\ ~IsBlobUrl(handed[i].value)

\* ---------------------------------------------------------------------------
\* Records of the sorted packages
\* ---------------------------------------------------------------------------

\* The packages a record names as a dependency.
RecordedTargets == {e[2] : e \in RecordedEdges}

\* The keyed object a field still holds has the key; true of an array.
HasKey(field, key) == field[1] = "object" => key \in DOMAIN ValueOf(field)

\* C15: every package in sortedDependencies, also one that is there as the
\* target of a recorded dependency, has a record in this.dependencies, and
\* with it a declared style list, a declared script list and a resource map
\* for processCssDependencies and processJsDependencies to read.
C15_SortedHaveRecords ==
    \A p \in Range(sortedDependencies) :
        /\ p \in RecordedPackages
        /\ p \in DOMAIN packageFiles
        /\ HasKey(cssDependencies, p)
        /\ HasKey(jsDependencies, p)

\* C15: the plans have been made and sortedDependencies holds a package that
\* declares no dependency and is the target of a recorded dependency.
C15_Witness ==
    /\ PlansMade
    /\ \E p \in Range(sortedDependencies) \cap RecordedTargets :
          \A i \in 1..Len(dependencies) :
              dependencies[i].packagePath = p => dependencies[i].dependencies = <<>>

\* ---------------------------------------------------------------------------
\* Order of the stages of init
\* ---------------------------------------------------------------------------

\* Every invocation of recurseDependencies has resolved and every one for a
\* package has pushed its record.
AllRecorded ==
    /\ \A c \in 1..Len(calls) : calls[c].state = "resolved"
    /\ Len(dependencies) = Cardinality({c \in 1..Len(calls) : calls[c].parent # 0})

\* setDependencies has run and its sort has returned.
Sorted ==
    \/ stage \in {"processing", "ready", "scripts", "initialized"}
    \/ stage = "rejected" /\ error \in {"TypeError", "ScriptLoadFailure"}

\* processFiles has started a read, or a read has left its entry.
Materializing ==
    \/ reads # {}
    \/ contentPaths # EmptyMap
    \/ contentJson # <<>>
    \/ \E p \in DOMAIN packageFiles : packageFiles[p] # EmptyMap

\* processCssDependencies has been called.
Rewriting == PlansMade \/ (stage = "rejected" /\ error = "TypeError")

\* C16: within one init the stages do not overlap: when setDependencies has
\* sorted, every record has been pushed; when processFiles reads or has read
\* an entry, the sort is done; when processCssDependencies has been called,
\* no read of processFiles is pending; and when an element is in the
\* document, the rewriting is over and both plans are made.
C16_StagesInOrder ==
    /\ Sorted => AllRecorded
    /\ Materializing => Sorted
    /\ Rewriting => Sorted /\ reads = {}
    /\ document # <<>> => PlansMade /\ Sorted /\ reads = {}

\* C16: the whole pipeline has run on the course archive: records, entries,
\* rewritten styles, and elements in the document.
C16_Witness ==
    /\ zip = CourseZip
    /\ Len(dependencies) >= 2
    /\ Materializing
    /\ PlansMade
    /\ Len(document) >= 2

\* ---------------------------------------------------------------------------
\* Resource-map entries of stylesheets
\* ---------------------------------------------------------------------------

\* C17: once processCssDependencies has run, the entry of this.packageFiles
\* for every declared stylesheet of every package is the addressable handle
\* made for the rewritten stylesheet, the one in the fileMap of the style
\* load plan, and not stylesheet text.
C17_StylesheetEntryIsHandle ==
    PlansMade =>
        \A t \in 1..Len(ValueOf(cssDependencies)) :
            LET tier == ValueOf(cssDependencies)[t]
            IN  \A k \in 1..Len(tier.fileMap) :
                    /\ tier.fileMap[k].key \in DOMAIN packageFiles[tier.dependency]
                    /\ IsBlobUrl(packageFiles[tier.dependency][tier.fileMap[k].key])
                    /\ packageFiles[tier.dependency][tier.fileMap[k].key]
                          = tier.fileMap[k].value

\* C17: the styles of the course archive have been rewritten; the fileMap of
\* package A holds a handle for css/a.css and this.packageFiles holds the
\* rewritten text.
C17_Witness ==
    /\ zip = CourseZip
    /\ PlansMade
    /\ \E t \in 1..Len(ValueOf(cssDependencies)) :
          /\ ValueOf(cssDependencies)[t].dependency = PackagePathOf(A)
          /\ ValueOf(cssDependencies)[t].fileMap
                = <<[key |-> ACss, value |-> CssBlobUrl(PackagePathOf(A), ACss)]>>
    /\ packageFiles[PackagePathOf(A)][ACss]
          = <<"a{", "url(", "'", "blob:", "A/:A/img/a.png", "'", ")", "}">>

\* ---------------------------------------------------------------------------
\* Values substituted into stylesheets
\* ---------------------------------------------------------------------------

\* What a reference may have become when only addressable handles are put
\* in place of a path.
HandleOutcomes(files, ref) ==
    {RenderReference(ref)}
        \cup {WithPath(ref, files[k]) : k \in {n \in DOMAIN files : IsBlobUrl(files[n])}}

RECURSIVE HandleDeclarations(_, _, _)
HandleDeclarations(files, refs, i) ==
    IF i > Len(refs) THEN {<<"}">>}
    ELSE {(IF i = 1 THEN <<>> ELSE <<";">>) \o x[1] \o x[2] :
             x \in HandleOutcomes(files, refs[i]) \X HandleDeclarations(files, refs, i + 1)}

\* C18: whatever replacePaths puts in place of the path of a url(...)
\* reference is an addressable handle of the package's resource map; a
\* reference that resolves to another stylesheet of the package is never
\* replaced by stylesheet text.
C18_OnlyHandlesSubstituted ==
    rewrite.returned /\ ~rewrite.thrown =>
        rewrite.css \in {<<"a{">> \o rest :
            rest \in HandleDeclarations(rewrite.packageFiles, rewrite.references, 1)}

\* C18: url('e.css') in s.css has been replaced by the text of e.css, the
\* other stylesheet of the package.
C18_Witness ==
    /\ rewrite.returned
    /\ rewrite.dep = <<"s.css">>
    /\ rewrite.references = <<Reference(Apostrophe, <<"e.css">>, Apostrophe)>>
    /\ <<"e.css">> \in DOMAIN rewrite.packageFiles
    /\ rewrite.css = <<"a{", "url(", "'", "e{", "}", "'", ")", "}">>

\* ---------------------------------------------------------------------------
\* The visited set of a branch
\* ---------------------------------------------------------------------------

\* The packages of invocation c and of the invocations above it.
BranchPackages(c) ==
    {calls[c].packagePath} \cup {calls[a].packagePath : a \in Ancestors(calls, c)}

\* The places where a descriptor names the package as a dependency.
Reaching(q) ==
    UNION {{<<c, i>> : i \in {j \in 1..Len(calls[c].results) :
                                calls[c].results[j].packagePath = q}} :
              c \in 1..Len(calls)}

\* C19: an invocation for package P does not recurse into a declared
\* dependency Q only if Q is P or the package of an invocation above it on
\* its branch; the visited set is not shared with sibling branches, so when
\* the declared dependencies have no cycle a package is recorded once for
\* every descriptor that names it.
C19_SkippedOnlyOnBranch ==
    /\ \A c \in 1..Len(calls) : \A i \in 1..Len(calls[c].results) :
          calls[c].results[i].call = 0 =>
              calls[c].results[i].packagePath \in BranchPackages(c)
    /\ RootResolved /\ DeclaredAcyclic(zip) =>
          \A q \in RecordedPackages :
              Cardinality({k \in 1..Len(dependencies) : dependencies[k].packagePath = q})
                  = Cardinality(Reaching(q))

\* C19: in the course archive, whose h5p.json names A and B and whose A
\* names B, the invocation for A has not recursed into B and B has one
\* record.
C19_Witness ==
    /\ zip = CourseZip
    /\ RootResolved
    /\ \E c \in 1..Len(calls) :
          /\ calls[c].packagePath = PackagePathOf(A)
          /\ calls[c].results = <<[packagePath |-> PackagePathOf(B), call |-> 0]>>
    /\ Cardinality({k \in 1..Len(dependencies) :
                      dependencies[k].packagePath = PackagePathOf(B)}) = 1

\* ---------------------------------------------------------------------------
\* The packages of the load plans
\* ---------------------------------------------------------------------------

PlanPackages(plan) == [t \in 1..Len(plan) |-> plan[t].dependency]

PlanKeys(plan, t) == [k \in 1..Len(plan[t].fileMap) |-> plan[t].fileMap[k].key]

\* The files of one kind ("preloadedCss", "preloadedJs") the records of the
\* package declare.
Declared(p, kind) ==
    {dependencies[k][kind] : k \in {n \in 1..Len(dependencies) :
                                       dependencies[n].packagePath = p}}

\* A plan has one tier for each package of sortedDependencies, in that
\* order, whose fileMap has the declared files of the package as keys.
PlanFollowsSorted(plan, kind) ==
    /\ PlanPackages(plan) = sortedDependencies
    /\ \A t \in 1..Len(plan) : Declared(plan[t].dependency, kind) = {PlanKeys(plan, t)}

\* C20, as amended: each load plan lists the packages of sortedDependencies
\* in the order of sortedDependencies, every one of them, with the declared
\* stylesheets (scripts) of the package in its fileMap, which is empty for a
\* package that declares none.
C20_PlansFollowSorted ==
    PlansMade =>
        /\ PlanFollowsSorted(ValueOf(cssDependencies), "preloadedCss")
        /\ PlanFollowsSorted(ValueOf(jsDependencies), "preloadedJs")

\* C20, as stated: the style plan holds only packages that declare a
\* stylesheet and the script plan only packages that declare a script, in
\* the order of sortedDependencies.
C20_OnlyDeclaringPackages ==
    PlansMade =>
        /\ \A t \in 1..Len(ValueOf(cssDependencies)) :
              ValueOf(cssDependencies)[t].fileMap # <<>>
        /\ \A t \in 1..Len(ValueOf(jsDependencies)) :
              ValueOf(jsDependencies)[t].fileMap # <<>>
        /\ \A t, u \in 1..Len(ValueOf(cssDependencies)) :
              t < u => \E m, n \in 1..Len(sortedDependencies) :
                          /\ m < n
                          /\ sortedDependencies[m] = ValueOf(cssDependencies)[t].dependency
                          /\ sortedDependencies[n] = ValueOf(cssDependencies)[u].dependency
        /\ \A t, u \in 1..Len(ValueOf(jsDependencies)) :
              t < u => \E m, n \in 1..Len(sortedDependencies) :
                          /\ m < n
                          /\ sortedDependencies[m] = ValueOf(jsDependencies)[t].dependency
                          /\ sortedDependencies[n] = ValueOf(jsDependencies)[u].dependency

\* C20: the plans of the lesson archive are made: the script plan has a tier
\* for B, which declares no script, between those of C and A, and the style
\* plan has three tiers with nothing in them.
C20_Witness ==
    /\ zip = LessonZip
    /\ PlansMade
    /\ sortedDependencies = <<PackagePathOf(C), PackagePathOf(B), PackagePathOf(A)>>
    /\ Len(ValueOf(jsDependencies)) = 3
    /\ ValueOf(jsDependencies)[2] = [dependency |-> PackagePathOf(B), fileMap |-> <<>>]
    /\ \A t \in 1..3 : ValueOf(cssDependencies)[t].fileMap = <<>>

\* ---------------------------------------------------------------------------
\* Entries of the content folder
\* ---------------------------------------------------------------------------

\* processFiles has run and every read it started has completed.
FilesProcessed == Sorted /\ reads = {}

\* The entry lies in the content folder: its name begins with content/.
InContentFolder(e) ==
    Len(zip[e].name) > Len(ContentFolder)
        /\ SubSeq(zip[e].name, 1, Len(ContentFolder)) = ContentFolder

ContentEntries ==
    {e \in 1..Len(zip) :
        InContentFolder(e) /\ zip[e].name # ContentFolder \o ContentJsonName}

\* The name without the leading content/.
Stripped(e) == SubSeq(zip[e].name, Len(ContentFolder) + 1, Len(zip[e].name))

\* C21: after processFiles, contentPaths has one entry, an addressable
\* handle, for every archive entry in the content folder other than
\* content/content.json, under the entry's name without the leading
\* content/; it has no other entry, none for an archive entry outside the
\* content folder; and content.json is held as its text in contentJson.
C21_ContentMapExact ==
    FilesProcessed =>
        /\ DOMAIN contentPaths = {Stripped(e) : e \in ContentEntries}
        /\ \A e \in ContentEntries : contentPaths[Stripped(e)] = BlobUrl(ContentFolder, zip[e].name)
        /\ \A e \in 1..Len(zip) :
              zip[e].name = ContentFolder \o ContentJsonName => contentJson = zip[e].content

\* C21: the files of the archive with the folder A/content/ have been
\* processed and contentPaths has an entry for A/content/x.png, a file of
\* package A, under A/x.png.
C21_Witness ==
    /\ zip = FolderZip
    /\ FilesProcessed
    /\ PackagePathOf(A) \o <<"x.png">> \in DOMAIN contentPaths
    /\ <<"images/", "c.png">> \in DOMAIN contentPaths

\* ---------------------------------------------------------------------------
\* Entries of the packages
\* ---------------------------------------------------------------------------

\* The archive entries of a package: their names begin with its path.
EntriesOf(p) ==
    {e \in 1..Len(zip) : Len(zip[e].name) > Len(p) /\ SubSeq(zip[e].name, 1, Len(p)) = p}

\* The name of an entry within its package.
RelativeName(p, e) == SubSeq(zip[e].name, Len(p) + 1, Len(zip[e].name))

\* The entry of a package is held as its kind asks: a declared script as a
\* handle and flagged in loadedJs, else a declared style as its text and
\* flagged in loadedCss, else as a handle with no flag.
HeldByKind(p, e) ==
    LET name == RelativeName(p, e)
        script == name \in Range(ValueOf(jsDependencies)[p])
        style == name \in Range(ValueOf(cssDependencies)[p])
    IN  /\ name \in DOMAIN packageFiles[p]
        /\ IF ~script /\ style THEN packageFiles[p][name] = zip[e].content
           ELSE packageFiles[p][name] = BlobUrl(p, zip[e].name)
        /\ zip[e].name \in loadedJs <=> script
        /\ zip[e].name \in loadedCss <=> ~script /\ style

\* C22: after processFiles and before the styles are rewritten, every
\* archive entry of every known package is in the package's resource map as
\* its kind asks, and every key of a package's resource map is the name of
\* an archive entry of that package: no entry of another package whose name
\* only contains the package path is held under it.
C22_ResourceMapByKind ==
    stage = "processing" /\ reads = {} =>
        \A p \in DOMAIN packageFiles :
            /\ \A e \in EntriesOf(p) : HeldByKind(p, e)
            /\ DOMAIN packageFiles[p] = {RelativeName(p, e) : e \in EntriesOf(p)}

\* C22: the files of the archive with the folder B/A/ have been read and the
\* resource map of package A holds B/A/y.png, a file of package B, under
\* B/y.png.
C22_Witness ==
    /\ zip = FolderZip
    /\ stage = "processing"
    /\ reads = {}
    /\ PackagePathOf(B) \o <<"y.png">> \in DOMAIN packageFiles[PackagePathOf(A)]
    /\ PackagePathOf(A) \o <<"y.png">> \in DOMAIN packageFiles[PackagePathOf(B)]

\* ---------------------------------------------------------------------------
\* Overrides, elements and H5P.init
\* ---------------------------------------------------------------------------

\* Every script of every tier of the script plan is in the document and has
\* loaded.
EveryTierCompleted ==
    \A t \in 1..Len(ValueOf(jsDependencies)) :
        /\ Cardinality(ScriptsOf(document, t)) = Len(ValueOf(jsDependencies)[t].fileMap)
        /\ TierLoaded(document, t)

\* C23: shimH5P has installed the overrides whenever a style or a script is
\* in the document and whenever H5P.init has been called, and H5P.init is
\* called only when every script tier has completed.
C23_ShimFirstInitLast ==
    /\ document # <<>> => shimmed
    /\ h5pInitCalls > 0 =>
          /\ shimmed
          /\ PlansMade
          /\ EveryTierCompleted

\* C23: H5P.init has been called for the course archive, with the overrides
\* installed, two links in the document and the three scripts loaded.
C23_Witness ==
    /\ zip = CourseZip
    /\ h5pInitCalls = 1
    /\ shimmed
    /\ Cardinality(LinksOf(document)) = 2
    /\ Cardinality({i \in 1..Len(document) : document[i].state = "loaded"}) = 3

\* ---------------------------------------------------------------------------
\* The order and the interleaving of the descriptor reads
\* ---------------------------------------------------------------------------

RECURSIVE EarliestFirst(_, _)
\* The resolution in which the pending read of the earliest invocation
\* always completes first.  s = [calls, dependencies, library, rootConfig]
EarliestFirst(z, s) ==
    LET reading == {c \in 1..Len(s.calls) : s.calls[c].state = "reading"}
    IN  IF reading = {} THEN s
        ELSE EarliestFirst(z, ReadDescriptorResult(z, s.calls, s.dependencies, s.library,
                                  s.rootConfig,
                                  CHOOSE c \in reading : \A d \in reading : c <= d))

\* The order setDependencies makes of the records of that resolution.
EarliestFirstOrder(z) ==
    LET s == EarliestFirst(z, [calls |-> <<NewCall(NoPackage, 0)>>, dependencies |-> <<>>,
                               library |-> Null, rootConfig |-> Null])
        a == AddDependencies(s.dependencies, 1,
                [packageFiles |-> EmptyMap, cssDependencies |-> EmptyMap,
                 jsDependencies |-> EmptyMap, edges |-> <<>>])
    IN  Reverse(ToposortSort(a.edges).sorted)

\* C24: for a fixed archive sortedDependencies is one sequence, whatever the
\* order in which the descriptor reads of sibling invocations complete: it
\* is the sequence of the resolution in which the earliest pending read
\* always completes first.
C24_OrderIndependentOfReads ==
    Sorted => sortedDependencies = EarliestFirstOrder(zip)

\* C24: the packages of an archive have been sorted in another order than
\* the one they have when the earliest pending read completes first.
C24_Witness ==
    /\ Sorted
    /\ sortedDependencies # EarliestFirstOrder(zip)
    /\ Range(sortedDependencies) = Range(EarliestFirstOrder(zip))

\* ---------------------------------------------------------------------------
\* Records of the reachable packages
\* ---------------------------------------------------------------------------

\* The packages h5p.json declares.
RootTargets(z) ==
    {PackagePathOf(dep) : dep \in Range(z[ZipFile(z, H5pJson)].content.preloadedDependencies)}

\* The packages reached from h5p.json through declared dependencies.
ReachablePackages(z) ==
    RootTargets(z)
        \cup {e[2] : e \in {x \in TransitiveClosure(DeclaredEdges(z)) : x[1] \in RootTargets(z)}}

\* Record n is the record of a resolved invocation for its package, and a
\* record of every package that invocation recursed into comes before it.
AfterItsDependencies(n) ==
    \E c \in 1..Len(calls) :
        /\ calls[c].state = "resolved"
        /\ calls[c].packagePath = dependencies[n].packagePath
        /\ dependencies[n].dependencies
              = [i \in 1..Len(calls[c].results) |-> calls[c].results[i].packagePath]
        /\ \A i \in 1..Len(calls[c].results) :
              calls[c].results[i].call # 0 =>
                  \E m \in 1..(n - 1) :
                      dependencies[m].packagePath = calls[c].results[i].packagePath

\* C25: when the root invocation of recurseDependencies has resolved, every
\* package reachable from h5p.json through declared dependencies, also one
\* whose edge was skipped as visited on some branch, has a record in
\* this.dependencies, and every record comes after a record of each
\* dependency that its invocation recursed into.
C25_ReachableRecorded ==
    RootResolved =>
        /\ ReachablePackages(zip) \subseteq RecordedPackages
        /\ \A n \in 1..Len(dependencies) : AfterItsDependencies(n)

\* C25: the root has resolved for the course archive; A, which did not
\* recurse into its visited dependency B, has its record before that of B.
C25_Witness ==
    /\ zip = CourseZip
    /\ RootResolved
    /\ Len(dependencies) = 2
    /\ dependencies[1].packagePath = PackagePathOf(A)
    /\ dependencies[1].dependencies = <<PackagePathOf(B)>>
    /\ dependencies[2].packagePath = PackagePathOf(B)

\* Whether the store holds the key (subContentId, dataId), and what under it.
Held(object, subContentId, dataId) ==
    IF subContentId \in DOMAIN object /\ dataId \in DOMAIN object[subContentId]
    THEN <<object[subContentId][dataId]>>
    ELSE <<>>

\* The two stores agree on every key but (subContentId, dataId).
OnlyKeyChanged(before, after, subContentId, dataId) ==
    \A s \in DOMAIN before \cup DOMAIN after :
        \A d \in UNION {DOMAIN object[s] : object \in {o \in {before, after} : s \in DOMAIN o}} :
            <<s, d>> # <<subContentId, dataId>> => Held(before, s, d) = Held(after, s, d)

\* C26: a setUserData whose serialization throws leaves every key of the
\* store as it was, does not call stateUpdated and calls errorCallback once
\* if it is a function (and not at all otherwise); every other setUserData
\* and every deleteUserData changes no key but (subContentId, dataId) and
\* calls stateUpdated once; getUserData leaves the store as it was and hands
\* null to done where the stored value is 'RESET'.
C26_UserDataCalls ==
    [][userCalls' # userCalls =>
        LET call == lastCall'[1]
            throws == call.fn = "setUserData" /\ call.data = <<"circular">>
        IN  /\ throws =>
                /\ data' = data
                /\ stateUpdates' = stateUpdates
                /\ errorCallbacks' = errorCallbacks +
                                     (IF call.errorCallback = "function" THEN 1 ELSE 0)
            /\ call.fn \in {"setUserData", "deleteUserData"} /\ ~throws =>
                /\ OnlyKeyChanged(data, data', call.subContentId, call.dataId)
                /\ stateUpdates' = stateUpdates + 1
            /\ call.fn = "getUserData" =>
                /\ data' = data
                /\ get(data, call.subContentId, call.dataId) = <<"RESET">> =>
                       doneData' = <<Null>>]_vars

\* A stored 'RESET' was reported as null, a key was written or removed among
\* others that stayed, and then a serialization threw and the errorCallback
\* was called.
C26_Witness ==
    /\ lastCall # <<>>
    /\ lastCall[1].fn = "setUserData"
    /\ lastCall[1].data = <<"circular">>
    /\ lastCall[1].errorCallback = "function"
    /\ errorCallbacks = 1
    /\ stateUpdates = 1
    /\ doneData = <<Null>>
    /\ "7" \in DOMAIN data
    /\ Held(data, "0", "other") # <<>>
    /\ Held(data, "0", "state") # <<<<"\"", "kept", "\"">>>>
=============================================================================
